---- MODULE Spec2Model ----
(***************************************************************************)
(* A model of the wcPlay scripting engine (wcPlay, wcNode and the node     *)
(* kinds built on it): the link registry of a node, the connection         *)
(* protocol, the deferred trigger queues and the update loop.              *)
(*                                                                         *)
(* The pure operators below take the whole program state as a record S     *)
(* and return the state after the call, as the JavaScript methods mutate   *)
(* the engine and the nodes; the actions at the end apply one host call.   *)
(***************************************************************************)
EXTENDS Integers, Sequences, FiniteSets, TLC

(***************************************************************************)
(* Bounds of the model.                                                    *)
(***************************************************************************)
\* the longest a queue may be when a host call that enqueues is made
MaxQueue == 2
\* the largest number a host writes into a property
MaxValue == 1

(***************************************************************************)
(* Program constants.                                                      *)
(***************************************************************************)
\* options.updateLimit, as the host constructs the engine
updateLimit == 2

VARIABLES
  nodes,             \* id -> the wcNode object with that id (NoObject before `new`)
  entryNodes,        \* wcPlay._entryNodes
  processNodes,      \* wcPlay._processNodes
  compositeNodes,    \* wcPlay._compositeNodes
  storageNodes,      \* wcPlay._storageNodes
  properties,        \* wcPlay._properties (script-level)
  queuedChain,       \* wcPlay._queuedChain
  queuedProperties,  \* wcPlay._queuedProperties
  isPaused,          \* wcPlay._isPaused
  isStepping,        \* wcPlay._isStepping
  debugging,         \* wcPlay._options.debugging
  last               \* history: the last host call, its result and what it ran

vars == <<nodes, entryNodes, processNodes, compositeNodes, storageNodes, properties,
          queuedChain, queuedProperties, isPaused, isStepping, debugging, last>>

(***************************************************************************)
(* JavaScript values: a tag and a number.  Booleans are 0/1 under "bool",  *)
(* strings are numbered under "str" with 0 the empty string and no string  *)
(* the text of a number.  The numbers are the integers, NaN, the two       *)
(* infinities (tagged with their sign) and Fraction, which stands for any  *)
(* number that is no integer.                                              *)
(***************************************************************************)
Undefined == [t |-> "undef", v |-> 0]
Num(i) == [t |-> "num", v |-> i]
NaN == [t |-> "nan", v |-> 0]
Infinity(sign) == [t |-> "inf", v |-> sign]
Fraction == [t |-> "fraction", v |-> 1]
Bool(b) == [t |-> "bool", v |-> IF b THEN 1 ELSE 0]
Str(i) == [t |-> "str", v |-> i]

\* ToBoolean(x): undefined, false, 0 and "" are falsy
Truthy(x) == x.t # "undef" /\ x.v # 0

\* x === y; NaN is equal to nothing
StrictEq(x, y) == x = y /\ x.t # "nan"

\* a || b
OrElse(a, b) == IF Truthy(a) THEN a ELSE b

(***************************************************************************)
(* Sequence helpers (Array.prototype).                                     *)
(***************************************************************************)
\* the first index whose .name is `name`, 0 when there is none
IndexOfName(seq, name) ==
  IF \E i \in 1..Len(seq) : seq[i].name = name
    THEN CHOOSE i \in 1..Len(seq) :
           /\ seq[i].name = name
           /\ \A j \in 1..(i - 1) : seq[j].name # name
    ELSE 0

\* Array.indexOf as a 1-based index, 0 when absent
IndexOf(seq, x) ==
  IF \E i \in 1..Len(seq) : seq[i] = x
    THEN CHOOSE i \in 1..Len(seq) : seq[i] = x /\ \A j \in 1..(i - 1) : seq[j] # x
    ELSE 0

\* Array.splice(i, 1) at the 1-based index i
Splice(seq, i) == SubSeq(seq, 1, i - 1) \o SubSeq(seq, i + 1, Len(seq))

Min(a, b) == IF a < b THEN a ELSE b

(***************************************************************************)
(* Arithmetic of JavaScript numbers.                                       *)
(***************************************************************************)
\* parseFloat(x): a number is itself; undefined, booleans and the strings are NaN
parseFloat(x) == IF x.t \in {"num", "inf", "fraction"} THEN x ELSE NaN

Sign(i) == IF i < 0 THEN -1 ELSE 1

\* -x
Negate(x) ==
  IF x.t = "num" THEN Num(0 - x.v)
  ELSE IF x.t = "inf" THEN Infinity(0 - x.v)
  ELSE x

\* a + b
Plus(a, b) ==
  IF a.t = "nan" \/ b.t = "nan" THEN NaN
  ELSE IF a.t = "inf" THEN (IF b.t = "inf" /\ b.v # a.v THEN NaN ELSE a)
  ELSE IF b.t = "inf" THEN b
  ELSE IF a.t = "num" /\ b.t = "num" THEN Num(a.v + b.v)
  ELSE Fraction

\* a * b
Times(a, b) ==
  IF a.t = "nan" \/ b.t = "nan" THEN NaN
  ELSE IF a = Num(0) \/ b = Num(0)
    THEN (IF a.t = "inf" \/ b.t = "inf" THEN NaN ELSE Num(0))
  ELSE IF a.t = "inf" \/ b.t = "inf" THEN Infinity(Sign(a.v) * Sign(b.v))
  ELSE IF a.t = "num" /\ b.t = "num" THEN Num(a.v * b.v)
  ELSE Fraction

\* a / b
Divide(a, b) ==
  IF a.t = "nan" \/ b.t = "nan" THEN NaN
  ELSE IF a.t = "inf" THEN (IF b.t = "inf" THEN NaN ELSE Infinity(Sign(a.v) * Sign(b.v)))
  ELSE IF b.t = "inf" THEN Num(0)
  ELSE IF b = Num(0) THEN (IF a = Num(0) THEN NaN ELSE Infinity(Sign(a.v)))
  ELSE IF a.t = "num" /\ b.t = "num" /\ a.v % b.v = 0 THEN Num(a.v \div b.v)
  ELSE Fraction

(***************************************************************************)
(* Node classes of the library and the kind each derives from.             *)
(***************************************************************************)
EntryClasses == {"wcNodeEntry", "wcNodeEntryStart"}
ProcessClasses == {"wcNodeProcess", "wcNodeProcessConsoleLog", "wcNodeProcessDelay",
                   "wcNodeProcessOperation"}
StorageClasses == {"wcNodeStorage", "wcNodeStorageNumber", "wcNodeStorageToggle"}

NODE_TYPE(className) ==
  IF className \in EntryClasses THEN "entry"
  ELSE IF className \in ProcessClasses THEN "process"
  ELSE IF className \in StorageClasses THEN "storage"
  ELSE "none"

\* a slot of `nodes` that no constructor has filled yet
NoObject ==
  [className |-> "none", name |-> "", entry |-> <<>>, exit |-> <<>>, properties |-> <<>>,
   threads |-> <<>>, awake |-> FALSE, break |-> FALSE, paused |-> FALSE,
   changing |-> Undefined, timers |-> {}, timeouts |-> 0, condition |-> TRUE]

\* no node (null / undefined where a node is expected)
NoNode == 0

(***************************************************************************)
(* wcNode: link and property slots.                                        *)
(***************************************************************************)
\* the link array of one side of a node: chain.entry, chain.exit or properties
Slots(S, side, n) ==
  IF side = "entry" THEN S.nodes[n].entry
  ELSE IF side = "exit" THEN S.nodes[n].exit
  ELSE S.nodes[n].properties

\* the pairs held by the slot at index i on that side
LinksAt(S, side, n, i) ==
  IF side = "entry" THEN S.nodes[n].entry[i].links
  ELSE IF side = "exit" THEN S.nodes[n].exit[i].links
  ELSE IF side = "input" THEN S.nodes[n].properties[i].inputs
  ELSE S.nodes[n].properties[i].outputs

\* the state with the pairs of the slot at index i on that side replaced
WithLinksAt(S, side, n, i, links) ==
  IF side = "entry" THEN [S EXCEPT !.nodes[n].entry[i].links = links]
  ELSE IF side = "exit" THEN [S EXCEPT !.nodes[n].exit[i].links = links]
  ELSE IF side = "input" THEN [S EXCEPT !.nodes[n].properties[i].inputs = links]
  ELSE [S EXCEPT !.nodes[n].properties[i].outputs = links]

\* the side a link of `side` connects to
Opposite(side) ==
  IF side = "entry" THEN "exit"
  ELSE IF side = "exit" THEN "entry"
  ELSE IF side = "input" THEN "output"
  ELSE "input"

\* a createEntry that skips the search for the name
createEntryAlways(S, n, name) ==
  [S EXCEPT !.nodes[n].entry = Append(@, [name |-> name, links |-> <<>>])]

createEntry(S, n, name) ==
  IF IndexOfName(S.nodes[n].entry, name) # 0 THEN S
  ELSE [S EXCEPT !.nodes[n].entry = Append(@, [name |-> name, links |-> <<>>])]

createExit(S, n, name) ==
  IF IndexOfName(S.nodes[n].exit, name) # 0 THEN S
  ELSE [S EXCEPT !.nodes[n].exit = Append(@, [name |-> name, links |-> <<>>])]

createProperty(S, n, name, initialValue) ==
  IF IndexOfName(S.nodes[n].properties, name) # 0 THEN S
  ELSE LET init == IF initialValue = Undefined THEN Num(0) ELSE initialValue
       IN [S EXCEPT !.nodes[n].properties =
             Append(@, [name |-> name, value |-> init, initialValue |-> init,
                        inputs |-> <<>>, outputs |-> <<>>])]

\* the boolean that createEntry, createExit and createProperty return when called with
\* `name` on the list `slots`: false from the search loop, true after the push
Created(slots, name) == IndexOfName(slots, name) = 0

\* node.property(name) without a value: the current value, undefined when not found
propertyGet(S, n, name) ==
  LET i == IndexOfName(S.nodes[n].properties, name)
  IN IF i = 0 THEN Undefined ELSE S.nodes[n].properties[i].value

\* node.enabled() without an argument
enabled(S, n) == propertyGet(S, n, "enabled")

\* a debugBreak() that does not ask the engine whether it is debugging
debugBreakAlways(S, n) == S.nodes[n].break

\* node.debugBreak() without an argument
debugBreak(S, n) == S.debugging /\ S.nodes[n].break

(***************************************************************************)
(* wcPlay: the two queues.                                                 *)
(***************************************************************************)
\* queueNodeEntry with unshift in place of push
queueNodeEntryFront(S, node, name) ==
  IF Truthy(enabled(S, node))
    THEN LET S1 == [S EXCEPT !.queuedChain = <<[node |-> node, name |-> name]>> \o @]
         IN IF debugBreak(S1, node) \/ S1.isStepping
              THEN [S1 EXCEPT !.nodes[node].paused = TRUE, !.isPaused = TRUE]
              ELSE S1
    ELSE S

\* a queueNodeEntry that does not look at the enabled property of the node
queueNodeEntryAlways(S, node, name) ==
  LET S1 == [S EXCEPT !.queuedChain = Append(@, [node |-> node, name |-> name])]
  IN IF debugBreak(S1, node) \/ S1.isStepping
       THEN [S1 EXCEPT !.nodes[node].paused = TRUE, !.isPaused = TRUE]
       ELSE S1

\* a queueNodeEntry that does not push a trigger that is queued already
queueNodeEntryOnce(S, node, name) ==
  IF Truthy(enabled(S, node))
    THEN LET item == [node |-> node, name |-> name]
             S1 == [S EXCEPT !.queuedChain = IF IndexOf(@, item) = 0 THEN Append(@, item) ELSE @,
                             !.accepted = Append(@, item)]
         IN IF debugBreak(S1, node) \/ S1.isStepping
              THEN [S1 EXCEPT !.nodes[node].paused = TRUE, !.isPaused = TRUE]
              ELSE S1
    ELSE S

\* the call record lists the item as accepted
queueNodeEntry(S, node, name) ==
  IF Truthy(enabled(S, node))
    THEN LET S1 == [S EXCEPT !.queuedChain = Append(@, [node |-> node, name |-> name]),
                             !.accepted = Append(@, [node |-> node, name |-> name])]
         IN IF debugBreak(S1, node) \/ S1.isStepping
              THEN [S1 EXCEPT !.nodes[node].paused = TRUE, !.isPaused = TRUE]
              ELSE S1
    ELSE S

\* a queueNodeProperty that marks the node and leaves the engine's paused flag alone
queueNodePropertyMarkOnly(S, node, name, value) ==
  IF Truthy(enabled(S, node))
    THEN LET S1 == [S EXCEPT !.queuedProperties =
                      Append(@, [node |-> node, name |-> name, value |-> value])]
         IN IF debugBreak(S1, node) \/ S1.isStepping
              THEN [S1 EXCEPT !.nodes[node].paused = TRUE]
              ELSE S1
    ELSE S

\* the call record lists the item as accepted
queueNodeProperty(S, node, name, value) ==
  IF Truthy(enabled(S, node))
    THEN LET S1 == [S EXCEPT !.queuedProperties =
                      Append(@, [node |-> node, name |-> name, value |-> value]),
                             !.accepted =
                      Append(@, [node |-> node, name |-> name, value |-> value])]
         IN IF debugBreak(S1, node) \/ S1.isStepping
              THEN [S1 EXCEPT !.nodes[node].paused = TRUE, !.isPaused = TRUE]
              ELSE S1
    ELSE S

(***************************************************************************)
(* wcNode: triggers and property writes.                                   *)
(***************************************************************************)
triggerEntry(S, n, name) ==
  LET i == IndexOfName(S.nodes[n].entry, name)
  IN IF i = 0 THEN S ELSE queueNodeEntry(S, n, S.nodes[n].entry[i].name)

\* the loop of triggerExit over exitLink.links, from index a
RECURSIVE TriggerLinks(_, _, _)
TriggerLinks(S, links, a) ==
  IF a > Len(links) THEN S
  ELSE TriggerLinks(
         IF links[a].node # NoNode THEN triggerEntry(S, links[a].node, links[a].name) ELSE S,
         links, a + 1)

triggerExit(S, n, name) ==
  LET i == IndexOfName(S.nodes[n].exit, name)
      S0 == [S EXCEPT !.fired = Append(@, [node |-> n, name |-> name])]
  IN IF i = 0 THEN S ELSE TriggerLinks(S0, S.nodes[n].exit[i].links, 1)

(***************************************************************************)
(* Latent threads.  `timers` holds the ids of the host timers this node    *)
(* has armed that have neither fired nor been cleared, `timeouts` counts   *)
(* its setTimeout calls; a thread token is a number (a timer id) or any    *)
(* other value (a Promise), here a string.                                 *)
(***************************************************************************)
\* setTimeout(callback, delay) called by node n: the host arms a timer with a new id
setTimeout(S, n) ==
  [S EXCEPT !.nodes[n].timeouts = @ + 1,
            !.nodes[n].timers = @ \cup {S.nodes[n].timeouts + 1}]

\* clearTimeout(id); clearInterval(id)
clearTimeout(S, n, id) == [S EXCEPT !.nodes[n].timers = @ \ {id}]

\* node.beginThread(id)
beginThread(S, n, id) ==
  [S EXCEPT !.nodes[n].threads = Append(@, id),
            !.nodes[n].awake = TRUE]

\* node.finishThread(id)
finishThread(S, n, id) ==
  LET index == IndexOf(S.nodes[n].threads, id)
  IN IF index > 0
       THEN LET S1 == [S EXCEPT !.nodes[n].threads = Splice(@, index)]
            IN IF Len(S1.nodes[n].threads) = 0
                 THEN [S1 EXCEPT !.nodes[n].awake = FALSE]
                 ELSE S1
     ELSE S

\* triggerProperty writing the value into the target at once, with nothing queued
triggerPropertyNow(S, n, name, value) ==
  LET i == IndexOfName(S.nodes[n].properties, name)
  IN IF i = 0 THEN S ELSE [S EXCEPT !.nodes[n].properties[i].value = value]

triggerProperty(S, n, name, value) == queueNodeProperty(S, n, name, value)

\* node.onPropertyChanging(name, oldValue, newValue): the base hook returns nothing
\* (undefined); a class that overrides it returns the value kept in `changing`
onPropertyChanging(S, n, name, oldValue, newValue) == S.nodes[n].changing

\* node.onPropertyChanged(name, oldValue, newValue): the call record lists the firing
onPropertyChanged(S, n, name, oldValue, newValue) ==
  [S EXCEPT !.changed = Append(@, [node |-> n, name |-> name,
                                   oldValue |-> oldValue, newValue |-> newValue])]

\* the loop of property() over prop.outputs, from index a
RECURSIVE TriggerOutputs(_, _, _, _)
TriggerOutputs(S, outputs, value, a) ==
  IF a > Len(outputs) THEN S
  ELSE TriggerOutputs(
         IF outputs[a].node # NoNode
           THEN triggerProperty(S, outputs[a].node, outputs[a].name, value) ELSE S,
         outputs, value, a + 1)

\* a property() whose fan-out ignores forceOrSilent: every commit enqueues
propertyAlwaysFansOut(S, n, name, value, forceOrSilent) ==
  LET i == IndexOfName(S.nodes[n].properties, name)
  IN IF i = 0 \/ value = Undefined THEN S
     ELSE LET prop == S.nodes[n].properties[i]
              oldValue == prop.value
              force == forceOrSilent = "true"
              value1 == IF force \/ ~StrictEq(prop.value, value)
                          THEN OrElse(onPropertyChanging(S, n, prop.name, oldValue, value), value)
                          ELSE value
          IN IF force \/ ~StrictEq(prop.value, value1)
               THEN LET S0 == [S EXCEPT !.nodes[n].properties[i].value = value1]
                        S1 == onPropertyChanged(S0, n, prop.name, oldValue, value1)
                    IN TriggerOutputs(S1, prop.outputs, value1, 1)
               ELSE S

\* node.property(name, value, forceOrSilent); forceOrSilent is "undefined", "true" or "false"
property(S, n, name, value, forceOrSilent) ==
  LET i == IndexOfName(S.nodes[n].properties, name)
  IN IF i = 0 \/ value = Undefined THEN S
     ELSE LET prop == S.nodes[n].properties[i]
              oldValue == prop.value
              force == forceOrSilent = "true"
              value1 == IF force \/ ~StrictEq(prop.value, value)
                          THEN OrElse(onPropertyChanging(S, n, prop.name, oldValue, value), value)
                          ELSE value
          IN IF force \/ ~StrictEq(prop.value, value1)
               THEN LET S0 == [S EXCEPT !.nodes[n].properties[i].value = value1]
                        S1 == onPropertyChanged(S0, n, prop.name, oldValue, value1)
                    IN IF forceOrSilent # "false"
                         THEN TriggerOutputs(S1, prop.outputs, value1, 1)
                         ELSE S1
               ELSE S

\* an initialProperty that sets the initial value and never the value
initialPropertyOnly(S, n, name, value) ==
  LET i == IndexOfName(S.nodes[n].properties, name)
  IN IF i = 0 \/ value = Undefined THEN S
     ELSE [S EXCEPT !.nodes[n].properties[i].initialValue = value]

\* node.initialProperty(name, value)
initialProperty(S, n, name, value) ==
  LET i == IndexOfName(S.nodes[n].properties, name)
  IN IF i = 0 \/ value = Undefined THEN S
     ELSE LET prop == S.nodes[n].properties[i]
              S1 == IF StrictEq(prop.value, prop.initialValue)
                      THEN property(S, n, name, value, "undefined")
                      ELSE S
          IN [S1 EXCEPT !.nodes[n].properties[i].initialValue = value]

(***************************************************************************)
(* wcNode: the connection protocol.                                        *)
(***************************************************************************)
\* whether `links` holds the pair (node, name)
HasPair(links, node, name) ==
  \E i \in 1..Len(links) : links[i].node = node /\ links[i].name = name

\* an onConnect that sends its value whatever the type of the link
onConnectAnyType(S, n, name, type, targetNode, targetName) ==
  LET S1 == [S EXCEPT !.connects = Append(@, [node |-> n, name |-> name, type |-> type])]
  IN triggerProperty(S1, targetNode, targetName, propertyGet(S1, n, name))

\* node.onConnect(isConnecting = true, name, type, targetNode, targetName, targetType)
\* the call record lists the firing
onConnect(S, n, name, type, targetNode, targetName) ==
  LET S1 == [S EXCEPT !.connects = Append(@, [node |-> n, name |-> name, type |-> type])]
  IN IF type = "output"
       THEN triggerProperty(S1, targetNode, targetName, propertyGet(S1, n, name))
       ELSE S1

\* a connect that, when only the target's link is missing, still pushes its own pair
ConnectHalf(S, side, n, name, targetNode, targetName) ==
  IF targetNode = NoNode \/ S.nodes[targetNode].className = "none"
    THEN [S |-> S, result |-> "not_found"]
  ELSE
    LET i == IndexOfName(Slots(S, side, n), name)
    IN IF i = 0 THEN [S |-> S, result |-> "not_found"]
       ELSE [S |-> WithLinksAt(S, side, n, i,
                     Append(LinksAt(S, side, n, i), [name |-> targetName, node |-> targetNode])),
             result |-> "success"]

\* a connect that pushes both pairs without looking for an existing connection
ConnectUnchecked(S, side, n, name, targetNode, targetName) ==
  IF targetNode = NoNode \/ S.nodes[targetNode].className = "none"
    THEN [S |-> S, result |-> "not_found"]
  ELSE
    LET i == IndexOfName(Slots(S, side, n), name)
        j == IndexOfName(Slots(S, Opposite(side), targetNode), targetName)
    IN IF i = 0 \/ j = 0 THEN [S |-> S, result |-> "not_found"]
       ELSE
         LET S1 == WithLinksAt(S, side, n, i,
                     Append(LinksAt(S, side, n, i), [name |-> targetName, node |-> targetNode]))
             S2 == WithLinksAt(S1, Opposite(side), targetNode, j,
                     Append(LinksAt(S1, Opposite(side), targetNode, j),
                            [name |-> name, node |-> n]))
             S3 == onConnect(S2, n, name, side, targetNode, targetName)
             S4 == onConnect(S3, targetNode, targetName, Opposite(side), n, name)
         IN [S |-> S4, result |-> "success"]

\* connectEntry, connectExit, connectInput and connectOutput differ only in the side
\* they look their own link up on; the result is the state and the CONNECT_RESULT
Connect(S, side, n, name, targetNode, targetName) ==
  IF targetNode = NoNode \/ S.nodes[targetNode].className = "none"
    THEN [S |-> S, result |-> "not_found"]
  ELSE
    LET i == IndexOfName(Slots(S, side, n), name)
        j == IndexOfName(Slots(S, Opposite(side), targetNode), targetName)
    IN IF i = 0 \/ j = 0 THEN [S |-> S, result |-> "not_found"]
       ELSE IF \/ HasPair(LinksAt(S, side, n, i), targetNode, targetName)
               \/ HasPair(LinksAt(S, Opposite(side), targetNode, j), n, name)
         THEN [S |-> S, result |-> "already_connected"]
       ELSE
         LET S1 == WithLinksAt(S, side, n, i,
                     Append(LinksAt(S, side, n, i), [name |-> targetName, node |-> targetNode]))
             S2 == WithLinksAt(S1, Opposite(side), targetNode, j,
                     Append(LinksAt(S1, Opposite(side), targetNode, j),
                            [name |-> name, node |-> n]))
             S3 == onConnect(S2, n, name, side, targetNode, targetName)
             S4 == onConnect(S3, targetNode, targetName, Opposite(side), n, name)
         IN [S |-> S4, result |-> "success"]

connectEntry(S, n, name, targetNode, targetName) ==
  Connect(S, "entry", n, name, targetNode, targetName)

connectExit(S, n, name, targetNode, targetName) ==
  Connect(S, "exit", n, name, targetNode, targetName)

connectInput(S, n, name, targetNode, targetName) ==
  Connect(S, "input", n, name, targetNode, targetName)

connectOutput(S, n, name, targetNode, targetName) ==
  Connect(S, "output", n, name, targetNode, targetName)

\* the filter test of the disconnect loops: a missing (falsy) filter matches everything
Matches(link, targetNode, targetName) ==
  /\ targetNode = NoNode \/ targetNode = link.node
  /\ targetName = "" \/ targetName = link.name

\* a disconnect loop that removes its own pairs and never calls into the peer
RECURSIVE DisconnectLoopOneSided(_, _, _, _, _, _, _)
DisconnectLoopOneSided(S, side, n, name, targetNode, targetName, i) ==
  LET k == IndexOfName(Slots(S, side, n), name)
      links == LinksAt(S, side, n, k)
  IN IF i > Len(links) THEN S
     ELSE IF Matches(links[i], targetNode, targetName)
       THEN DisconnectLoopOneSided(WithLinksAt(S, side, n, k, Splice(links, i)),
                                   side, n, name, targetNode, targetName, i)
       ELSE DisconnectLoopOneSided(S, side, n, name, targetNode, targetName, i + 1)

\* disconnectEntry/Exit/Input/Output(name, targetNode, targetName): the loop over the
\* pairs of the link from index i, each removed pair followed by the call into its peer
RECURSIVE DisconnectLoop(_, _, _, _, _, _, _)
Disconnect(S, side, n, name, targetNode, targetName) ==
  IF IndexOfName(Slots(S, side, n), name) = 0 THEN S
  ELSE DisconnectLoop(S, side, n, name, targetNode, targetName, 1)

DisconnectLoop(S, side, n, name, targetNode, targetName, i) ==
  LET k == IndexOfName(Slots(S, side, n), name)
      links == LinksAt(S, side, n, k)
  IN IF i > Len(links) THEN S
     ELSE IF Matches(links[i], targetNode, targetName)
       THEN LET S1 == WithLinksAt(S, side, n, k, Splice(links, i))
                S2 == Disconnect(S1, Opposite(side), links[i].node, links[i].name, n, name)
            IN DisconnectLoop(S2, side, n, name, targetNode, targetName, i)
       ELSE DisconnectLoop(S, side, n, name, targetNode, targetName, i + 1)

\* the CONNECT_RESULT of a disconnect call
DisconnectResult(S, side, n, name) ==
  IF IndexOfName(Slots(S, side, n), name) = 0 THEN "not_found" ELSE "success"

disconnectEntry(S, n, name, targetNode, targetName) ==
  Disconnect(S, "entry", n, name, targetNode, targetName)

disconnectExit(S, n, name, targetNode, targetName) ==
  Disconnect(S, "exit", n, name, targetNode, targetName)

disconnectInput(S, n, name, targetNode, targetName) ==
  Disconnect(S, "input", n, name, targetNode, targetName)

disconnectOutput(S, n, name, targetNode, targetName) ==
  Disconnect(S, "output", n, name, targetNode, targetName)

(***************************************************************************)
(* wcNode: removing slots, reset and destroy.                              *)
(***************************************************************************)
removeEntry(S, n, name) ==
  LET i == IndexOfName(S.nodes[n].entry, name)
  IN IF i = 0 THEN [S |-> S, result |-> FALSE]
     ELSE LET S1 == disconnectEntry(S, n, name, NoNode, "")
          IN IF DisconnectResult(S, "entry", n, name) = "success"
               THEN [S |-> [S1 EXCEPT !.nodes[n].entry = Splice(@, i)], result |-> TRUE]
               ELSE [S |-> S1, result |-> FALSE]

removeExit(S, n, name) ==
  LET i == IndexOfName(S.nodes[n].exit, name)
  IN IF i = 0 THEN [S |-> S, result |-> FALSE]
     ELSE LET S1 == disconnectExit(S, n, name, NoNode, "")
          IN IF DisconnectResult(S, "exit", n, name) = "success"
               THEN [S |-> [S1 EXCEPT !.nodes[n].exit = Splice(@, i)], result |-> TRUE]
               ELSE [S |-> S1, result |-> FALSE]

\* the test  disconnectInput(name) === disconnectOutput(name) === SUCCESS  compares the
\* boolean of the first === with the string 'success'
removeProperty(S, n, name) ==
  LET i == IndexOfName(S.nodes[n].properties, name)
  IN IF i = 0 THEN [S |-> S, result |-> FALSE]
     ELSE LET S1 == disconnectInput(S, n, name, NoNode, "")
              S2 == disconnectOutput(S1, n, name, NoNode, "")
              same == Bool(DisconnectResult(S, "input", n, name)
                             = DisconnectResult(S1, "output", n, name))
          IN IF StrictEq(same, Str(1))
               THEN [S |-> [S2 EXCEPT !.nodes[n].properties = Splice(@, i)], result |-> TRUE]
               ELSE [S |-> S2, result |-> FALSE]

\* props with every value set back to its initialValue
ResetValues(props) ==
  [i \in 1..Len(props) |-> [props[i] EXCEPT !.value = props[i].initialValue]]

\* reset that empties the thread list and leaves the values
resetThreadsOnly(S, n) == [S EXCEPT !.nodes[n].threads = <<>>]

\* reset that empties the thread list and leaves the timers of its tokens armed
resetKeepTimers(S, n) ==
  [S EXCEPT !.nodes[n].properties = ResetValues(@),
            !.nodes[n].threads = <<>>]

\* the loop of reset() over _meta.threads, from index i: numeric tokens are cleared
\* as timers
RECURSIVE ClearThreads(_, _, _)
ClearThreads(S, n, i) ==
  IF i > Len(S.nodes[n].threads) THEN S
  ELSE ClearThreads(
         IF S.nodes[n].threads[i].t = "num"
           THEN clearTimeout(S, n, S.nodes[n].threads[i].v)
           ELSE S,
         n, i + 1)

\* node.reset(): every value back to its initial value, the timers of the numeric
\* thread tokens cleared, the thread list emptied
reset(S, n) ==
  LET S1 == [S EXCEPT !.nodes[n].properties = ResetValues(@)]
      S2 == ClearThreads(S1, n, 1)
  IN [S2 EXCEPT !.nodes[n].threads = <<>>]

\* seq.splice(seq.indexOf(x), 1): an index of -1 removes the last element
SpliceIndexOf(seq, x) ==
  IF IndexOf(seq, x) # 0 THEN Splice(seq, IndexOf(seq, x))
  ELSE IF Len(seq) = 0 THEN seq ELSE SubSeq(seq, 1, Len(seq) - 1)

\* wcPlay.__addNode(node)
addNode(S, n) ==
  LET kind == NODE_TYPE(S.nodes[n].className)
  IN IF kind = "entry" THEN [S EXCEPT !.entryNodes = Append(@, n)]
     ELSE IF kind = "process" THEN [S EXCEPT !.processNodes = Append(@, n)]
     ELSE IF kind = "storage" THEN [S EXCEPT !.storageNodes = Append(@, n)]
     ELSE S

\* wcPlay.__removeNode(node)
removeNode(S, n) ==
  LET kind == NODE_TYPE(S.nodes[n].className)
  IN IF kind = "entry" THEN [S EXCEPT !.entryNodes = SpliceIndexOf(@, n)]
     ELSE IF kind = "process" THEN [S EXCEPT !.processNodes = SpliceIndexOf(@, n)]
     ELSE IF kind = "storage" THEN [S EXCEPT !.storageNodes = SpliceIndexOf(@, n)]
     ELSE S

\* engine.nodeById(id): the partitions searched in the order storage, process,
\* composite, entry; null (NoNode) when none holds the node
nodeById(S, id) ==
  IF IndexOf(S.storageNodes, id) # 0 THEN id
  ELSE IF IndexOf(S.processNodes, id) # 0 THEN id
  ELSE IF IndexOf(S.compositeNodes, id) # 0 THEN id
  ELSE IF IndexOf(S.entryNodes, id) # 0 THEN id
  ELSE NoNode

\* the loops of destroy() over chain.entry, chain.exit and properties, from index i
RECURSIVE DestroyLinks(_, _, _, _)
DestroyLinks(S, side, n, i) ==
  IF i > Len(Slots(S, side, n)) THEN S
  ELSE LET name == Slots(S, side, n)[i].name
       IN DestroyLinks(
            IF side = "properties"
              THEN disconnectOutput(disconnectInput(S, n, name, NoNode, ""), n, name, NoNode, "")
              ELSE Disconnect(S, side, n, name, NoNode, ""),
            side, n, i + 1)

\* a destroy() that resets and unregisters the node and leaves its links connected
destroyConnected(S, n) == removeNode(reset(S, n), n)

destroy(S, n) ==
  LET S1 == DestroyLinks(S, "entry", n, 1)
      S2 == DestroyLinks(S1, "exit", n, 1)
      S3 == DestroyLinks(S2, "properties", n, 1)
  IN removeNode(reset(S3, n), n)

\* one of the four  while (list.length) list[0].destroy();  loops of clear()
RECURSIVE ClearNodes(_, _)
ClearNodes(S, kind) ==
  LET list == IF kind = "storage" THEN S.storageNodes
              ELSE IF kind = "process" THEN S.processNodes
              ELSE IF kind = "composite" THEN S.compositeNodes
              ELSE S.entryNodes
  IN IF Len(list) = 0 THEN S ELSE ClearNodes(destroy(S, list[1]), kind)

\* engine.clear()
clear(S) ==
  LET S1 == [S EXCEPT !.queuedChain = <<>>, !.queuedProperties = <<>>, !.properties = <<>>]
      S2 == ClearNodes(S1, "storage")
      S3 == ClearNodes(S2, "process")
      S4 == ClearNodes(S3, "composite")
  IN ClearNodes(S4, "entry")

(***************************************************************************)
(* Constructors.                                                           *)
(***************************************************************************)
\* wcNode.init: the object, its two default properties, and the registration
wcNodeInit(S, id, className) ==
  LET S1 == [S EXCEPT !.nodes[id] = [NoObject EXCEPT !.className = className]]
      S2 == createProperty(S1, id, "enabled", Bool(TRUE))
      S3 == createProperty(S2, id, "debug log", Bool(FALSE))
  IN addNode(S3, id)

\* new <className>(engine): the init chain of the class
NewNode(S, id, className) ==
  LET S0 == wcNodeInit(S, id, className)
  IN IF className \in EntryClasses THEN createExit(S0, id, "out")
     ELSE IF className = "wcNodeProcess" THEN createExit(createEntry(S0, id, "in"), id, "out")
     ELSE IF className = "wcNodeProcessConsoleLog"
       THEN createProperty(createExit(createEntry(S0, id, "in"), id, "out"),
                           id, "message", Str(1))
     ELSE IF className = "wcNodeProcessDelay"
       THEN createProperty(
              createExit(createExit(createEntry(S0, id, "in"), id, "out"), id, "finished"),
              id, "milliseconds", Num(1))
     ELSE IF className = "wcNodeProcessOperation"
       THEN createProperty(
              createProperty(
                createProperty(
                  createEntry(
                    createEntry(
                      createEntry(
                        createEntry(
                          removeEntry(
                            createExit(createEntry(S0, id, "in"), id, "out"),
                            id, "in").S,
                          id, "add"),
                        id, "sub"),
                      id, "mul"),
                    id, "div"),
                  id, "valueA", Num(0)),
                id, "valueB", Num(0)),
              id, "result", Num(0))
     ELSE IF className = "wcNodeStorageNumber" THEN createProperty(S0, id, "value", Undefined)
     ELSE IF className = "wcNodeStorageToggle" THEN createProperty(S0, id, "value", Bool(FALSE))
     ELSE S0

(***************************************************************************)
(* Handlers.  A call record keeps what the call ran: `handled` lists the   *)
(* onTriggered invocations and the queued property updates handed to       *)
(* property(), each with the enabled value of its node at that moment, an  *)
(* onTriggered invocation also with the length of the property queue;      *)
(* `depth` counts the handlers on the stack, `maxDepth` the most at once.  *)
(***************************************************************************)
Max(a, b) == IF a > b THEN a ELSE b

\* wcNodeEntry.triggerCondition(data): true by default; a class that overrides it
\* returns the boolean kept in `condition`
triggerCondition(S, n, data) == S.nodes[n].condition

\* the switch of wcNodeProcessOperation.onTriggered; no case assigns result for another
\* name
Operation(name, a, b) ==
  IF name = "add" THEN Plus(a, b)
  ELSE IF name = "sub" THEN Plus(a, Negate(b))
  ELSE IF name = "mul" THEN Times(a, b)
  ELSE IF name = "div" THEN Divide(a, b)
  ELSE Undefined

\* an onTriggered of the Operation node that fires `out` only when result changed
onTriggeredOnChange(S, n, name) ==
  LET className == S.nodes[n].className
  IN IF className \in EntryClasses
       THEN IF triggerCondition(S, n, name) THEN triggerExit(S, n, "out") ELSE S
     ELSE IF className = "wcNodeProcessConsoleLog" THEN triggerExit(S, n, "out")
     ELSE IF className = "wcNodeProcessOperation"
       THEN LET a == parseFloat(propertyGet(S, n, "valueA"))
                b == parseFloat(propertyGet(S, n, "valueB"))
                result == Operation(name, a, b)
            IN IF StrictEq(propertyGet(S, n, "result"), result) THEN S
               ELSE triggerExit(property(S, n, "result", result, "undefined"), n, "out")
     ELSE S

\* the body of node.onTriggered(name) for the class of the node
onTriggeredBody(S, n, name) ==
  LET className == S.nodes[n].className
  IN IF className \in EntryClasses
       THEN IF triggerCondition(S, n, name) THEN triggerExit(S, n, "out") ELSE S
     ELSE IF className = "wcNodeProcessConsoleLog" THEN triggerExit(S, n, "out")
     ELSE IF className = "wcNodeProcessOperation"
       THEN LET a == parseFloat(propertyGet(S, n, "valueA"))
                b == parseFloat(propertyGet(S, n, "valueB"))
                result == Operation(name, a, b)
            IN triggerExit(property(S, n, "result", result, "undefined"), n, "out")
     ELSE IF className = "wcNodeProcessDelay"
       THEN LET S1 == triggerExit(S, n, "out")
                S2 == setTimeout(S1, n)
            IN beginThread(S2, n, Num(S2.nodes[n].timeouts))
     ELSE S

\* the callback that wcNodeProcessDelay.onTriggered hands to setTimeout, run by the
\* host when timer id fires
delayCallback(S, n, id) ==
  LET S1 == clearTimeout(S, n, id)
      S2 == triggerExit(S1, n, "finished")
  IN finishThread(S2, n, Num(id))

\* node.onTriggered(name), entered and left
onTriggered(S, n, name) ==
  LET S1 == [S EXCEPT !.depth = @ + 1,
                      !.maxDepth = Max(@, S.depth + 1),
                      !.handled = Append(@, [kind |-> "trigger", node |-> n, name |-> name,
                                             value |-> Undefined, enabled |-> enabled(S, n),
                                             queued |-> Len(S.queuedProperties)])]
      S2 == onTriggeredBody(S1, n, name)
  IN [S2 EXCEPT !.depth = @ - 1]

\* an onStart() of the Storage nodes that writes the value without forcing the change
onStartUnforced(S, n) ==
  LET className == S.nodes[n].className
  IN IF className \in StorageClasses
       THEN property(S, n, "value", propertyGet(S, n, "value"), "undefined")
     ELSE IF className = "wcNodeEntryStart" THEN onTriggered(S, n, "")
     ELSE S

\* node.onStart() for the class of the node
onStart(S, n) ==
  LET className == S.nodes[n].className
  IN IF className \in StorageClasses
       THEN property(S, n, "value", propertyGet(S, n, "value"), "true")
     ELSE IF className = "wcNodeEntryStart" THEN onTriggered(S, n, "")
     ELSE S

(***************************************************************************)
(* wcPlay: update, start, triggerEvent.                                    *)
(***************************************************************************)
\* the first loop of update(): `count` queued property updates, oldest first
RECURSIVE DrainProperties(_, _)
DrainProperties(S, count) ==
  IF count = 0 THEN [S EXCEPT !.count = count]
  ELSE LET item == Head(S.queuedProperties)
           S1 == [S EXCEPT !.queuedProperties = Tail(@),
                           !.nodes[item.node].paused = FALSE,
                           !.handled = Append(@, [kind |-> "property", node |-> item.node,
                                                  name |-> item.name, value |-> item.value,
                                                  enabled |-> enabled(S, item.node)])]
       IN DrainProperties(property(S1, item.node, item.name, item.value, "undefined"),
                          count - 1)

\* the second loop of update(): `count` queued triggers, oldest first
RECURSIVE DrainChain(_, _)
DrainChain(S, count) ==
  IF count = 0 THEN [S EXCEPT !.count = count]
  ELSE LET item == Head(S.queuedChain)
           S1 == [S EXCEPT !.queuedChain = Tail(@),
                           !.nodes[item.node].paused = FALSE]
       IN DrainChain(onTriggered(S1, item.node, item.name), count - 1)

\* update without the test that the property queue is empty before the triggers
updateFlowRegardless(S) ==
  IF S.isPaused THEN S
  ELSE
    LET S1 == DrainProperties(S, Min(Len(S.queuedProperties), updateLimit))
        S2 == [S1 EXCEPT !.pending = Len(S1.queuedProperties)]
        S3 == DrainChain(S2, Min(Len(S2.queuedChain), updateLimit - S2.count))
    IN IF S3.isStepping THEN [S3 EXCEPT !.isPaused = TRUE] ELSE S3

\* update without the test of the paused flag
updateWhilePaused(S) ==
  LET S1 == DrainProperties(S, Min(Len(S.queuedProperties), updateLimit))
      S2 == [S1 EXCEPT !.pending = Len(S1.queuedProperties)]
      S3 == IF Len(S2.queuedProperties) = 0
              THEN DrainChain(S2, Min(Len(S2.queuedChain), updateLimit - S2.count))
              ELSE S2
  IN IF S3.isStepping THEN [S3 EXCEPT !.isPaused = TRUE] ELSE S3

\* update with loops that go on, within the limit, over what their handlers enqueued
updateRefilled(S) ==
  IF S.isPaused THEN S
  ELSE
    LET p == Min(Len(S.queuedProperties), updateLimit)
        S0 == DrainProperties(S, p)
        S1 == DrainProperties(S0, Min(Len(S0.queuedProperties), updateLimit - p))
        S2 == [S1 EXCEPT !.pending = Len(S1.queuedProperties)]
        c == Min(Len(S2.queuedChain), updateLimit)
        S3 == IF Len(S2.queuedProperties) = 0
                THEN LET S4 == DrainChain(S2, c)
                     IN DrainChain(S4, Min(Len(S4.queuedChain), updateLimit - c))
                ELSE S2
    IN IF S3.isStepping THEN [S3 EXCEPT !.isPaused = TRUE] ELSE S3

update(S) ==
  IF S.isPaused THEN S
  ELSE
    LET S1 == DrainProperties(S, Min(Len(S.queuedProperties), updateLimit))
        S2 == [S1 EXCEPT !.pending = Len(S1.queuedProperties)]
        S3 == IF Len(S2.queuedProperties) = 0
                THEN DrainChain(S2, Min(Len(S2.queuedChain), updateLimit - S2.count))
                ELSE S2
    IN IF S3.isStepping THEN [S3 EXCEPT !.isPaused = TRUE] ELSE S3

\* node.reset() on each node of a partition, in its order
RECURSIVE ResetEach(_, _, _)
ResetEach(S, partition, i) ==
  IF i > Len(partition) THEN S ELSE ResetEach(reset(S, partition[i]), partition, i + 1)

\* self[func].apply(self, args) of one node; the engine only notifies 'onStart'
Notify(S, n, func) ==
  IF func = "onStart" THEN onStart(S, n) ELSE S

RECURSIVE NotifyEach(_, _, _, _)
NotifyEach(S, func, partition, i) ==
  IF i > Len(partition) THEN S
  ELSE NotifyEach(Notify(S, partition[i], func), func, partition, i + 1)

\* a __notifyNodes that begins with the entry nodes
notifyNodesEntryFirst(S, func) ==
  LET S1 == NotifyEach(S, func, S.entryNodes, 1)
      S2 == NotifyEach(S1, func, S1.storageNodes, 1)
      S3 == NotifyEach(S2, func, S2.processNodes, 1)
  IN NotifyEach(S3, func, S3.compositeNodes, 1)

\* wcPlay.__notifyNodes(func): storage, process, composite, entry
notifyNodes(S, func) ==
  LET S1 == NotifyEach(S, func, S.storageNodes, 1)
      S2 == NotifyEach(S1, func, S1.processNodes, 1)
      S3 == NotifyEach(S2, func, S2.compositeNodes, 1)
  IN NotifyEach(S3, func, S3.entryNodes, 1)

\* start without the two assignments that empty the queues
startKeepQueues(S) ==
  LET S0 == [S EXCEPT !.isPaused = TRUE, !.properties = ResetValues(@)]
      S1 == ResetEach(S0, S0.storageNodes, 1)
      S2 == ResetEach(S1, S1.processNodes, 1)
      S3 == ResetEach(S2, S2.compositeNodes, 1)
      S4 == ResetEach(S3, S3.entryNodes, 1)
      S5 == [S4 EXCEPT !.isPaused = FALSE, !.isStepping = FALSE]
  IN notifyNodes(S5, "onStart")

\* this._updateId as start() reads it: the constructor and start() assign _updateID, and
\* no statement assigns a property spelled _updateId
updateId == Undefined

\* `armed` counts the setInterval calls of the call
start(S) ==
  LET S0 == [S EXCEPT !.isPaused = TRUE,
                      !.properties = ResetValues(@)]
      S1 == ResetEach(S0, S0.storageNodes, 1)
      S2 == ResetEach(S1, S1.processNodes, 1)
      S3 == ResetEach(S2, S2.compositeNodes, 1)
      S4 == ResetEach(S3, S3.entryNodes, 1)
      S5 == [S4 EXCEPT !.queuedChain = <<>>, !.queuedProperties = <<>>,
                       !.isPaused = FALSE, !.isStepping = FALSE,
                       !.armed = IF Truthy(updateId) THEN @ ELSE @ + 1]
  IN notifyNodes(S5, "onStart")

\* wcPlay.createProperty(name, type, initialValue)
playCreateProperty(S, name, initialValue) ==
  IF IndexOfName(S.properties, name) # 0 THEN S
  ELSE [S EXCEPT !.properties =
          Append(@, [name |-> name, value |-> initialValue, initialValue |-> initialValue])]

\* wcPlay.property(name, value); no node class of the library implements
\* onSharedPropertyChanged, so the notification runs nothing
playProperty(S, name, value) ==
  LET i == IndexOfName(S.properties, name)
  IN IF i = 0 THEN S
     ELSE IF value # Undefined /\ ~StrictEq(value, S.properties[i].value)
       THEN [S EXCEPT !.properties[i].value = value]
       ELSE S

\* engine.initialProperty(name, value); the onSharedPropertyChanged notification runs
\* nothing
playInitialProperty(S, name, value) ==
  LET i == IndexOfName(S.properties, name)
  IN IF i = 0 THEN S
     ELSE IF value # Undefined /\ ~StrictEq(value, S.properties[i].initialValue)
       THEN LET oldValue == S.properties[i].initialValue
                S1 == [S EXCEPT !.properties[i].initialValue = value]
            IN IF StrictEq(S1.properties[i].value, oldValue)
                 THEN [S1 EXCEPT !.properties[i].value = value]
                 ELSE S1
       ELSE S

\* a triggerEvent loop that hands the event to every entry node, whatever its name
RECURSIVE TriggerEventLoopAll(_, _, _, _)
TriggerEventLoopAll(S, name, data, i) ==
  IF i > Len(S.entryNodes) THEN S
  ELSE TriggerEventLoopAll(onTriggered(S, S.entryNodes[i], data), name, data, i + 1)

\* the loop of triggerEvent(name, data) over the entry nodes, from index i
RECURSIVE TriggerEventLoop(_, _, _, _)
TriggerEventLoop(S, name, data, i) ==
  IF i > Len(S.entryNodes) THEN S
  ELSE TriggerEventLoop(
         IF S.nodes[S.entryNodes[i]].name = name
           THEN onTriggered(S, S.entryNodes[i], data) ELSE S,
         name, data, i + 1)

triggerEvent(S, name, data) == TriggerEventLoop(S, name, data, 1)

(***************************************************************************)
(* The state machine.                                                      *)
(***************************************************************************)
\* the ids a constructor may hand out (wcNodeNextID counts from 1)
NodeIds == 1..4

\* new wcPlay(options): no node, no property, empty queues, not paused
NewEngine ==
  [nodes |-> [id \in NodeIds |-> NoObject],
   entryNodes |-> <<>>, processNodes |-> <<>>, compositeNodes |-> <<>>, storageNodes |-> <<>>,
   properties |-> <<>>, queuedChain |-> <<>>, queuedProperties |-> <<>>,
   isPaused |-> FALSE, isStepping |-> FALSE, debugging |-> TRUE,
   depth |-> 0, maxDepth |-> 0, handled |-> <<>>, changed |-> <<>>, connects |-> <<>>,
   fired |-> <<>>, accepted |-> <<>>, armed |-> 0, count |-> 0, pending |-> 0]

\* the program state as a call finds it, with an empty call record
Cur ==
  [nodes |-> nodes,
   entryNodes |-> entryNodes, processNodes |-> processNodes,
   compositeNodes |-> compositeNodes, storageNodes |-> storageNodes,
   properties |-> properties, queuedChain |-> queuedChain, queuedProperties |-> queuedProperties,
   isPaused |-> isPaused, isStepping |-> isStepping, debugging |-> debugging,
   depth |-> 0, maxDepth |-> 0, handled |-> <<>>, changed |-> <<>>, connects |-> <<>>,
   fired |-> <<>>, accepted |-> <<>>, armed |-> 0, count |-> 0, pending |-> 0]

\* the number of (node, name) pairs held by all the link lists as a call finds them
RECURSIVE SumLinks(_, _)
SumLinks(slots, i) ==
  IF i > Len(slots) THEN 0
  ELSE (IF "links" \in DOMAIN slots[i] THEN Len(slots[i].links)
        ELSE Len(slots[i].inputs) + Len(slots[i].outputs)) + SumLinks(slots, i + 1)

RECURSIVE SumNodes(_)
SumNodes(id) ==
  IF id = 0 THEN 0
  ELSE SumLinks(nodes[id].entry, 1) + SumLinks(nodes[id].exit, 1)
       + SumLinks(nodes[id].properties, 1) + SumNodes(id - 1)

PairCount == SumNodes(Cardinality(NodeIds))

\* the history record of a call
Call(op, node, name, targetNode, targetName, value, result, S) ==
  [op |-> op, node |-> node, name |-> name, targetNode |-> targetNode,
   targetName |-> targetName, value |-> value, result |-> result,
   handled |-> S.handled, changed |-> S.changed, connects |-> S.connects,
   fired |-> S.fired, accepted |-> S.accepted, armed |-> S.armed,
   maxDepth |-> S.maxDepth,
   pending |-> S.pending,
   pairs |-> PairCount, paused |-> isPaused,
   timers |-> [id \in NodeIds |-> nodes[id].timers],
   threads |-> [id \in NodeIds |-> nodes[id].threads],
   dirty |-> /\ \E id \in NodeIds : \E i \in 1..Len(nodes[id].properties) :
                  nodes[id].properties[i].value # nodes[id].properties[i].initialValue
             /\ \E i \in 1..Len(properties) : properties[i].value # properties[i].initialValue]

\* the program state after a call
Becomes(S) ==
  /\ nodes' = S.nodes
  /\ entryNodes' = S.entryNodes
  /\ processNodes' = S.processNodes
  /\ compositeNodes' = S.compositeNodes
  /\ storageNodes' = S.storageNodes
  /\ properties' = S.properties
  /\ queuedChain' = S.queuedChain
  /\ queuedProperties' = S.queuedProperties
  /\ isPaused' = S.isPaused
  /\ isStepping' = S.isStepping
  /\ debugging' = S.debugging

\* the script the host builds before it runs: a Number storage, two Console Log nodes
\* and a Start node; Start fires nodes 2 and 4, node 2 fires node 4; the storage value
\* feeds the message of node 2 and the enabled property of node 4, and the message of
\* node 2 feeds the enabled property of node 4 too
Script ==
  LET S1 == NewNode(NewEngine, 1, "wcNodeStorageNumber")
      S2 == NewNode(S1, 2, "wcNodeProcessConsoleLog")
      S3 == NewNode(S2, 3, "wcNodeEntryStart")
      S4 == NewNode(S3, 4, "wcNodeProcessConsoleLog")
      S5 == connectExit(S4, 3, "out", 2, "in").S
      S6 == connectExit(S5, 3, "out", 4, "in").S
      S7 == connectExit(S6, 2, "out", 4, "in").S
      S8 == connectOutput(S7, 1, "value", 2, "message").S
      S9 == connectOutput(S8, 1, "value", 4, "enabled").S
      S10 == connectInput(S9, 4, "enabled", 2, "message").S
  IN playCreateProperty(S10, "speed", Num(0))

\* the program state is S
Is(S) ==
  /\ nodes = S.nodes
  /\ entryNodes = S.entryNodes
  /\ processNodes = S.processNodes
  /\ compositeNodes = S.compositeNodes
  /\ storageNodes = S.storageNodes
  /\ properties = S.properties
  /\ queuedChain = S.queuedChain
  /\ queuedProperties = S.queuedProperties
  /\ isPaused = S.isPaused
  /\ isStepping = S.isStepping
  /\ debugging = S.debugging

Init ==
  /\ Is(Script)
  /\ last = Call("new", NoNode, "", NoNode, "", Undefined, "", Script)

\* the values a host writes
HostValues == {Num(i) : i \in 0..MaxValue}

\* the host calls engine.property(name, value)
PlayProperty ==
  \E value \in HostValues :
    LET S == playProperty(Cur, "speed", value)
    IN /\ Becomes(S)
       /\ last' = Call("playProperty", NoNode, "speed", NoNode, "", value, "", S)

\* room left in both queues for a host call that enqueues
Room == Len(queuedChain) < MaxQueue /\ Len(queuedProperties) < MaxQueue

\* the timer fires: engine.update()
Update ==
  LET S == update(Cur)
  IN /\ Becomes(S)
     /\ last' = Call("update", NoNode, "", NoNode, "", Undefined, "", S)

\* the host calls engine.start()
Start ==
  LET S == start(Cur)
  IN /\ Becomes(S)
     /\ last' = Call("start", NoNode, "", NoNode, "", Undefined, "", S)

\* the host calls node.triggerEntry(name)
TriggerEntry ==
  \E n \in {2, 4} :
    LET S == triggerEntry(Cur, n, "in")
    IN /\ Room
       /\ Becomes(S)
       /\ last' = Call("triggerEntry", n, "in", NoNode, "", Undefined, "", S)

\* the host calls node.triggerExit(name)
TriggerExit ==
  \E n \in {2, 3} :
    LET S == triggerExit(Cur, n, "out")
    IN /\ Room
       /\ Becomes(S)
       /\ last' = Call("triggerExit", n, "out", NoNode, "", Undefined, "", S)

\* the host calls node.triggerProperty(name, value)
TriggerProperty ==
  \E n \in {2, 4}, value \in HostValues :
    LET name == IF n = 2 THEN "message" ELSE "enabled"
        S == triggerProperty(Cur, n, name, value)
    IN /\ Room
       /\ Becomes(S)
       /\ last' = Call("triggerProperty", n, name, NoNode, "", value, "", S)

\* the host calls node.property(name, value, forceOrSilent) on the storage node
Property ==
  \E value \in HostValues, forceOrSilent \in {"undefined", "true", "false"} :
    LET S == property(Cur, 1, "value", value, forceOrSilent)
    IN /\ Room
       /\ Becomes(S)
       /\ last' = Call("property", 1, "value", NoNode, "", value, forceOrSilent, S)

\* the host calls node.enabled(b)
Enabled ==
  \E n \in {3, 4}, b \in BOOLEAN :
    LET S == property(Cur, n, "enabled", Bool(b), "undefined")
    IN /\ Becomes(S)
       /\ last' = Call("enabled", n, "enabled", NoNode, "", Bool(b), "", S)

\* the host calls engine.paused(b)
Paused ==
  \E b \in BOOLEAN :
    /\ isPaused' = b
    /\ last' = Call("paused", NoNode, "", NoNode, "", Bool(b), "", Cur)
    /\ UNCHANGED <<nodes, entryNodes, processNodes, compositeNodes, storageNodes, properties,
                   queuedChain, queuedProperties, isStepping, debugging>>

\* the host calls engine.stepping(b)
Stepping ==
  \E b \in BOOLEAN :
    /\ isStepping' = b
    /\ last' = Call("stepping", NoNode, "", NoNode, "", Bool(b), "", Cur)
    /\ UNCHANGED <<nodes, entryNodes, processNodes, compositeNodes, storageNodes, properties,
                   queuedChain, queuedProperties, isPaused, debugging>>

\* the host calls engine.triggerEvent(name, data); no entry node was given a name
TriggerEvent ==
  LET S == triggerEvent(Cur, "", "")
  IN /\ Room
     /\ Becomes(S)
     /\ last' = Call("triggerEvent", NoNode, "", NoNode, "", Undefined, "", S)

Next ==
  \/ Update
  \/ Start
  \/ TriggerEntry
  \/ TriggerExit
  \/ TriggerProperty
  \/ Property
  \/ Enabled
  \/ TriggerEvent
  \/ PlayProperty

Spec == Init /\ [][Next]_vars

(***************************************************************************)
(* Properties of the scheduler.                                            *)
(***************************************************************************)
\* the queued property updates a call handled, as queue items, in order
HandledProperties(call) ==
  LET sel == SelectSeq(call.handled, LAMBDA h : h.kind = "property")
  IN [i \in 1..Len(sel) |-> [node |-> sel[i].node, name |-> sel[i].name, value |-> sel[i].value]]

\* the triggers a call handled, as queue items, in order
HandledTriggers(call) ==
  LET sel == SelectSeq(call.handled, LAMBDA h : h.kind = "trigger")
  IN [i \in 1..Len(sel) |-> [node |-> sel[i].node, name |-> sel[i].name]]

IsPrefix(s, t) == Len(s) <= Len(t) /\ \A i \in 1..Len(s) : s[i] = t[i]

\* s without its first k elements
Drop(s, k) == SubSeq(s, k + 1, Len(s))

\* C2: in a tick no property update is handled after a flow trigger, and a flow
\* trigger is handled only if the property queue was empty when the property drain of
\* that tick ended; while property updates remain pending no onTriggered runs
PropertiesBeforeFlow ==
  last.op = "update" =>
    /\ \A i, j \in 1..Len(last.handled) :
         i < j => ~(last.handled[i].kind = "trigger" /\ last.handled[j].kind = "property")
    /\ last.pending > 0 => Len(HandledTriggers(last)) = 0

\* C2 witness: a tick that handled property updates, left some pending and so kept
\* the queued triggers waiting
PropertiesBeforeFlowWitness ==
  /\ last.op = "update"
  /\ Len(HandledProperties(last)) = updateLimit
  /\ last.pending > 0
  /\ Len(queuedChain) > 0

\* C4 as claimed: a tick handles at most updateLimit items, properties and triggers
\* together
SharedBudget ==
  last.op = "update" => Len(last.handled) <= updateLimit

\* C5: a tick handles the oldest items of each queue in their queue order and leaves
\* the rest in order; every other call but start() only appends to the queues
QueuesAreFifo ==
  [][ IF last'.op = "update"
        THEN /\ IsPrefix(HandledProperties(last'), queuedProperties)
             /\ IsPrefix(Drop(queuedProperties, Len(HandledProperties(last'))),
                         queuedProperties')
             /\ IsPrefix(HandledTriggers(last'), queuedChain)
             /\ IsPrefix(Drop(queuedChain, Len(HandledTriggers(last'))), queuedChain')
      ELSE IF last'.op = "start" THEN TRUE
      ELSE IsPrefix(queuedProperties, queuedProperties') /\ IsPrefix(queuedChain, queuedChain')
    ]_vars

\* C5 witness: a tick handled two different triggers, the older first, with a newer
\* one left behind them
QueuesAreFifoWitness ==
  /\ last.op = "update"
  /\ HandledTriggers(last) = <<[node |-> 2, name |-> "in"], [node |-> 4, name |-> "in"]>>
  /\ Len(queuedChain) > 0

\* C7 as claimed: nothing is handled for a node whose enabled property is false
DisabledNeverRuns ==
  \A i \in 1..Len(last.handled) : last.handled[i].enabled # Bool(FALSE)

\* every property of every node of the engine, and every script-level property, holds
\* its initial value
AllInitial ==
  /\ \A i \in 1..Len(properties) : properties[i].value = properties[i].initialValue
  /\ \A id \in NodeIds :
       (\E k \in 1..Len(storageNodes \o processNodes \o compositeNodes \o entryNodes) :
          (storageNodes \o processNodes \o compositeNodes \o entryNodes)[k] = id)
       => \A i \in 1..Len(nodes[id].properties) :
            nodes[id].properties[i].value = nodes[id].properties[i].initialValue

\* C9: right after start() every property holds its initial value
StartResetsValues == last.op = "start" => AllInitial

\* C9 witness: start() was called while node and script-level values differed from
\* their initial values
StartResetsValuesWitness == last.op = "start" /\ last.dirty

\* C10 as claimed: right after start() both queues are empty
StartEmptiesQueues ==
  last.op = "start" => queuedChain = <<>> /\ queuedProperties = <<>>

\* the pairs of `links` whose node is enabled in state S, in link order
EnabledLinks(S, links) == SelectSeq(links, LAMBDA l : Truthy(enabled(S, l.node)))

\* the property updates a write of `value` sends to the enabled nodes of `links`
UpdatesFor(S, links, value) ==
  LET sel == EnabledLinks(S, links)
  IN [i \in 1..Len(sel) |-> [node |-> sel[i].node, name |-> sel[i].name, value |-> value]]

\* the slot called `name` among `slots`
Slot(slots, name) == slots[IndexOfName(slots, name)]

\* the calls a handler or the host makes on a node to trigger or to write
DeferredCalls == {"triggerEntry", "triggerExit", "triggerProperty", "property", "enabled"}

\* what C3 says of a step, with `fanOut` telling which committed writes enqueue
Deferred(fanOut(_)) ==
  /\ last'.maxDepth <= 1
  /\ last'.op \in DeferredCalls =>
       /\ last'.handled = <<>>
       /\ \A m \in NodeIds \ {last'.node} : nodes'[m].properties = nodes[m].properties
       /\ last'.op = "triggerExit" =>
            /\ queuedChain' = queuedChain
                                \o EnabledLinks(Cur, Slot(nodes[last'.node].exit, last'.name).links)
            /\ queuedProperties' = queuedProperties
       /\ last'.op \in {"property", "enabled"} =>
            LET old == Slot(nodes[last'.node].properties, last'.name)
                new == Slot(nodes'[last'.node].properties, last'.name)
                committed == last'.result = "true" \/ new.value # old.value
            IN /\ queuedChain' = queuedChain
               /\ committed /\ fanOut(last'.result) =>
                    queuedProperties' = queuedProperties
                                          \o UpdatesFor(Cur', old.outputs, new.value)

\* C3 as claimed: every committed property write enqueues one update per connected
\* enabled output target
DeferredEveryWrite == [][Deferred(LAMBDA forceOrSilent : TRUE)]_vars

\* C3: triggerEntry, triggerExit, triggerProperty and property(set) run no handler and
\* change no property of another node; triggerExit appends one trigger per connected
\* enabled target in link order; a committed write whose forceOrSilent is not false
\* appends one update per connected enabled output target; handlers never nest
DeferredUnlessSilent == [][Deferred(LAMBDA forceOrSilent : forceOrSilent # "false")]_vars

\* C3 witness: triggerExit on the Start node appended its two targets, in link order,
\* behind a trigger that was already queued
DeferredWitness ==
  /\ last.op = "triggerExit" /\ last.node = 3
  /\ Len(queuedChain) = 3
  /\ Drop(queuedChain, 1) = <<[node |-> 2, name |-> "in"], [node |-> 4, name |-> "in"]>>

\* the triggers the Start nodes of `partition` send at start, from index i
RECURSIVE StartTriggers(_, _)
StartTriggers(partition, i) ==
  IF i > Len(partition) THEN <<>>
  ELSE (IF nodes[partition[i]].className = "wcNodeEntryStart"
          THEN EnabledLinks(Cur, Slot(nodes[partition[i]].exit, "out").links)
          ELSE <<>>)
       \o StartTriggers(partition, i + 1)

\* the updates the storage nodes of `partition` broadcast at start, from index i
RECURSIVE StartBroadcasts(_, _)
StartBroadcasts(partition, i) ==
  IF i > Len(partition) THEN <<>>
  ELSE (IF IndexOfName(nodes[partition[i]].properties, "value") # 0
          THEN UpdatesFor(Cur, Slot(nodes[partition[i]].properties, "value").outputs,
                          Slot(nodes[partition[i]].properties, "value").value)
          ELSE <<>>)
       \o StartBroadcasts(partition, i + 1)

\* C10: right after start() the queues hold nothing that was queued before the call:
\* the property queue holds the broadcasts of the storage nodes to their enabled output
\* targets and the flow queue the triggers of the Start nodes to their enabled targets
StartRefillsQueues ==
  last.op = "start" =>
    /\ queuedProperties = StartBroadcasts(storageNodes, 1)
    /\ queuedChain = StartTriggers(entryNodes, 1)

\* C10 witness: start() has run and left a broadcast and a trigger in the queues
StartRefillsQueuesWitness ==
  last.op = "start" /\ Len(queuedProperties) > 0 /\ Len(queuedChain) > 0


(***************************************************************************)
(* The host edits the graph: a second state machine over the same state,   *)
(* started from nodes that are constructed and not yet connected.          *)
(***************************************************************************)
\* a Number storage, a Console Log node that the host gives a second entry link with
\* the empty name, and a Start node; id 4 is never constructed (not a wcNode)
LinkScript ==
  LET S1 == NewNode(NewEngine, 1, "wcNodeStorageNumber")
      S2 == NewNode(S1, 2, "wcNodeProcessConsoleLog")
      S3 == NewNode(S2, 3, "wcNodeEntryStart")
  IN createEntry(S3, 2, "")

InitLinks ==
  /\ Is(LinkScript)
  /\ last = Call("new", NoNode, "", NoNode, "", Undefined, "", LinkScript)

\* the endpoints the host passes, <<node, name>>; id 4 is no wcNode
EntryEnds == {<<2, "in">>, <<2, "">>}
ExitEnds == {<<3, "out">>, <<2, "out">>}
InputEnds == {<<2, "message">>}
OutputEnds == {<<1, "value">>}

ConnectEntry ==
  \E e \in EntryEnds, t \in ExitEnds :
    LET r == connectEntry(Cur, e[1], e[2], t[1], t[2])
    IN /\ Room
       /\ Becomes(r.S)
       /\ last' = Call("connectEntry", e[1], e[2], t[1], t[2], Undefined, r.result, r.S)

ConnectExit ==
  \E e \in ExitEnds, t \in EntryEnds \cup {<<4, "in">>} :
    LET r == connectExit(Cur, e[1], e[2], t[1], t[2])
    IN /\ Room
       /\ Becomes(r.S)
       /\ last' = Call("connectExit", e[1], e[2], t[1], t[2], Undefined, r.result, r.S)

ConnectInput ==
  \E e \in InputEnds, t \in OutputEnds :
    LET r == connectInput(Cur, e[1], e[2], t[1], t[2])
    IN /\ Room
       /\ Becomes(r.S)
       /\ last' = Call("connectInput", e[1], e[2], t[1], t[2], Undefined, r.result, r.S)

ConnectOutput ==
  \E e \in OutputEnds, t \in InputEnds :
    LET r == connectOutput(Cur, e[1], e[2], t[1], t[2])
    IN /\ Room
       /\ Becomes(r.S)
       /\ last' = Call("connectOutput", e[1], e[2], t[1], t[2], Undefined, r.result, r.S)

\* the filters of a disconnect call: a missing targetNode is NoNode, a missing
\* targetName the empty string
DisconnectEntry ==
  \E e \in EntryEnds, t \in {<<NoNode, "">>, <<3, "">>, <<3, "out">>} :
    LET targetNode == t[1]
        targetName == t[2]
        S == disconnectEntry(Cur, e[1], e[2], targetNode, targetName)
    IN /\ Becomes(S)
       /\ last' = Call("disconnectEntry", e[1], e[2], targetNode, targetName, Undefined,
                       DisconnectResult(Cur, "entry", e[1], e[2]), S)

DisconnectExit ==
  \E e \in ExitEnds, t \in {<<NoNode, "">>, <<NoNode, "in">>, <<2, "in">>} :
    LET targetNode == t[1]
        targetName == t[2]
        S == disconnectExit(Cur, e[1], e[2], targetNode, targetName)
    IN /\ Becomes(S)
       /\ last' = Call("disconnectExit", e[1], e[2], targetNode, targetName, Undefined,
                       DisconnectResult(Cur, "exit", e[1], e[2]), S)

DisconnectInput ==
  \E e \in InputEnds, t \in {<<NoNode, "">>, <<1, "value">>} :
    LET S == disconnectInput(Cur, e[1], e[2], t[1], t[2])
    IN /\ Becomes(S)
       /\ last' = Call("disconnectInput", e[1], e[2], t[1], t[2], Undefined,
                       DisconnectResult(Cur, "input", e[1], e[2]), S)

DisconnectOutput ==
  \E e \in OutputEnds :
    LET S == disconnectOutput(Cur, e[1], e[2], NoNode, "")
    IN /\ Becomes(S)
       /\ last' = Call("disconnectOutput", e[1], e[2], NoNode, "", Undefined,
                       DisconnectResult(Cur, "output", e[1], e[2]), S)

\* the boolean a remove call returns
BoolText(b) == IF b THEN "true" ELSE "false"

RemoveEntry ==
  LET r == removeEntry(Cur, 2, "")
  IN /\ Becomes(r.S)
     /\ last' = Call("removeEntry", 2, "", NoNode, "", Undefined, BoolText(r.result), r.S)

RemoveExit ==
  LET r == removeExit(Cur, 3, "out")
  IN /\ Becomes(r.S)
     /\ last' = Call("removeExit", 3, "out", NoNode, "", Undefined, BoolText(r.result), r.S)

RemoveProperty ==
  LET r == removeProperty(Cur, 2, "message")
  IN /\ Becomes(r.S)
     /\ last' = Call("removeProperty", 2, "message", NoNode, "", Undefined,
                     BoolText(r.result), r.S)

Destroy ==
  \E n \in {1, 3} :
    LET S == destroy(Cur, n)
    IN /\ Becomes(S)
       /\ last' = Call("destroy", n, "", NoNode, "", Undefined, "", S)

NextLinks ==
  \/ ConnectEntry
  \/ ConnectExit
  \/ ConnectInput
  \/ ConnectOutput
  \/ DisconnectEntry
  \/ DisconnectExit
  \/ DisconnectInput
  \/ DisconnectOutput
  \/ RemoveEntry
  \/ RemoveExit
  \/ RemoveProperty
  \/ Destroy
  \/ Update

SpecLinks == InitLinks /\ [][NextLinks]_vars


(***************************************************************************)
(* Properties of the link storage.                                         *)
(***************************************************************************)
Sides == {"entry", "exit", "input", "output"}

\* the graph as the current state holds it
Graph == [nodes |-> nodes]

\* in graph G, the link `name` on `side` of node a holds the pair (b, other)
Holds(G, side, a, name, b, other) ==
  /\ a \in NodeIds
  /\ \E i \in 1..Len(Slots(G, side, a)) :
       /\ Slots(G, side, a)[i].name = name
       /\ \E k \in 1..Len(LinksAt(G, side, a, i)) :
            LinksAt(G, side, a, i)[k] = [name |-> other, node |-> b]

\* C1: after any sequence of connect, disconnect (filtered or not), remove and destroy
\* calls, every pair (B, L') held by link L of node A on one side is matched by the pair
\* (A, L) held by link L' of node B on the opposite side -- over all four sides this is
\* the "if and only if" of the claim, and A and B may be the same node
SymmetricLinks ==
  \A a \in NodeIds, side \in Sides :
    \A i \in 1..Len(Slots(Graph, side, a)) :
      \A k \in 1..Len(LinksAt(Graph, side, a, i)) :
        LET pair == LinksAt(Graph, side, a, i)[k]
        IN Holds(Graph, Opposite(side), pair.node, pair.name, a, Slots(Graph, side, a)[i].name)

\* a disconnect with a target filter removed pairs and left others, among them the
\* link of node 2 from its own exit to its own entry
SymmetricLinksWitness ==
  /\ last.op \in {"disconnectEntry", "disconnectExit"}
  /\ last.targetNode # NoNode
  /\ last.pairs > PairCount
  /\ Holds(Graph, "exit", 2, "out", 2, "in")
  /\ Holds(Graph, "entry", 2, "in", 2, "out")

ConnectOps == {"connectEntry", "connectExit", "connectInput", "connectOutput"}

SideOf(op) ==
  IF op = "connectEntry" THEN "entry"
  ELSE IF op = "connectExit" THEN "exit"
  ELSE IF op = "connectInput" THEN "input"
  ELSE "output"

\* whether node n has a link of that name on that side
HasSlot(G, side, n, name) ==
  /\ n \in NodeIds
  /\ \E i \in 1..Len(Slots(G, side, n)) : Slots(G, side, n)[i].name = name

\* the program state, without the history
program ==
  <<nodes, entryNodes, processNodes, compositeNodes, storageNodes, properties,
    queuedChain, queuedProperties, isPaused, isStepping, debugging>>

\* what a connect call does, by the state it finds
ConnectContract ==
  LET c == last'
      side == SideOf(c.op)
      After == [nodes |-> nodes']
      found == /\ HasSlot(Graph, side, c.node, c.name)
               /\ HasSlot(Graph, Opposite(side), c.targetNode, c.targetName)
      held == \/ Holds(Graph, side, c.node, c.name, c.targetNode, c.targetName)
              \/ Holds(Graph, Opposite(side), c.targetNode, c.targetName, c.node, c.name)
  IN c.op \in ConnectOps =>
       IF ~found THEN c.result = "not_found" /\ UNCHANGED program
       ELSE IF held THEN c.result = "already_connected" /\ UNCHANGED program
       ELSE /\ c.result = "success"
            /\ Holds(After, side, c.node, c.name, c.targetNode, c.targetName)
            /\ Holds(After, Opposite(side), c.targetNode, c.targetName, c.node, c.name)

\* no link list holds the same (node, name) pair twice
NoDuplicatePairs ==
  \A a \in NodeIds, side \in Sides :
    \A i \in 1..Len(Slots(Graph, side, a)) :
      \A k1, k2 \in 1..Len(LinksAt(Graph, side, a, i)) :
        LinksAt(Graph, side, a, i)[k1] = LinksAt(Graph, side, a, i)[k2] => k1 = k2

\* C8: each of the four connect operations returns SUCCESS on two existing endpoints
\* that are not connected and makes the connection; called when the pair is already
\* held -- the same call again, or the mirrored call from the other endpoint -- it
\* returns ALREADY_CONNECTED and changes nothing; no link list ever holds a pair twice
IdempotentConnect == [][ConnectContract]_vars /\ []NoDuplicatePairs

\* connectExit is refused for a connection that is in place, here of node 2 to itself
IdempotentConnectWitness ==
  /\ last.op = "connectExit"
  /\ last.result = "already_connected"
  /\ last.node = 2 /\ last.targetNode = 2
  /\ Holds(Graph, "entry", 2, last.targetName, 2, "out")


(***************************************************************************)
(* The host debugs one node: a third state machine over the same state.    *)
(* The script has the four nodes of Script and a single connection, from   *)
(* the storage value to the enabled property of the second Console Log     *)
(* node; the host's calls all go to that node and to the storage.          *)
(***************************************************************************)
DebugScript ==
  LET S1 == NewNode(NewEngine, 1, "wcNodeStorageNumber")
      S2 == NewNode(S1, 2, "wcNodeProcessConsoleLog")
      S3 == NewNode(S2, 3, "wcNodeEntryStart")
      S4 == NewNode(S3, 4, "wcNodeProcessConsoleLog")
  IN connectOutput(S4, 1, "value", 4, "enabled").S

InitDebug ==
  /\ Is(DebugScript)
  /\ last = Call("new", NoNode, "", NoNode, "", Undefined, "", DebugScript)

\* the host calls node.debugBreak(b) on the second Console Log node
DebugBreak ==
  \E b \in BOOLEAN :
    /\ nodes' = [nodes EXCEPT ![4].break = b]
    /\ last' = Call("debugBreak", 4, "", NoNode, "", Bool(b), "", Cur)
    /\ UNCHANGED <<entryNodes, processNodes, compositeNodes, storageNodes, properties,
                   queuedChain, queuedProperties, isPaused, isStepping, debugging>>

\* the host disconnects the storage value from the enabled property of node 4, or
\* connects it again
Rewire ==
  \E connecting \in BOOLEAN :
    LET r == IF connecting
               THEN connectOutput(Cur, 1, "value", 4, "enabled")
               ELSE [S |-> disconnectOutput(Cur, 1, "value", 4, "enabled"),
                     result |-> DisconnectResult(Cur, "output", 1, "value")]
    IN /\ Room
       /\ Becomes(r.S)
       /\ last' = Call(IF connecting THEN "connectOutput" ELSE "disconnectOutput",
                       1, "value", 4, "enabled", Undefined, r.result, r.S)

\* the host calls engine.debugging(b)
Debugging ==
  \E b \in BOOLEAN :
    /\ debugging' = b
    /\ last' = Call("debugging", NoNode, "", NoNode, "", Bool(b), "", Cur)
    /\ UNCHANGED <<nodes, entryNodes, processNodes, compositeNodes, storageNodes, properties,
                   queuedChain, queuedProperties, isPaused, isStepping>>

\* the Step button of the editor: engine.paused(false); engine.stepping(true)
Step ==
  /\ isPaused' = FALSE
  /\ isStepping' = TRUE
  /\ last' = Call("step", NoNode, "", NoNode, "", Undefined, "", Cur)
  /\ UNCHANGED <<nodes, entryNodes, processNodes, compositeNodes, storageNodes, properties,
                 queuedChain, queuedProperties, debugging>>

NextDebug ==
  \/ Update
  \/ Debugging
  \/ Step
  \/ TriggerEntry /\ last'.node = 4
  \/ TriggerProperty /\ last'.node = 4
  \/ Property
  \/ Enabled /\ last'.node = 4
  \/ Paused
  \/ Stepping
  \/ DebugBreak
  \/ Rewire

SpecDebug == InitDebug /\ [][NextDebug]_vars


(***************************************************************************)
(* Properties of a disabled node.                                          *)
(***************************************************************************)
\* the enabled property of node n is false (or another falsy value) as a call finds it
Disabled(n) == ~Truthy(enabled(Cur, n))

\* the output targets of the property `name` of node n, as a call finds them
OutputsOf(n, name) == Slot(nodes[n].properties, name).outputs

\* what C6 says of a step
Ignored ==
  LET c == last'
      quiet == UNCHANGED <<queuedChain, queuedProperties, isPaused>>
  IN /\ c.op \in {"triggerEntry", "triggerProperty"} /\ Disabled(c.node) => quiet
     /\ c.op = "connectOutput" /\ Disabled(c.targetNode) => quiet
     /\ c.op = "property" =>
          /\ \A i \in (Len(queuedProperties) + 1)..Len(queuedProperties') :
               ~Disabled(queuedProperties'[i].node)
          /\ (\A k \in 1..Len(OutputsOf(c.node, c.name)) :
                Disabled(OutputsOf(c.node, c.name)[k].node)) => quiet

\* C6: while the enabled property of a node is false, triggerEntry on it and every
\* property update aimed at it -- triggerProperty called directly, by the write of a
\* connected output, or by onConnect -- leave both queues and the paused flag as they
\* were, also when the engine is stepping or the node has a breakpoint
IgnoredWhileDisabled == [][Ignored]_vars

\* triggerEntry was called on node 4 while it was disabled, had its breakpoint set and
\* the engine was stepping: nothing is queued and the engine is not paused
IgnoredWhileDisabledWitness ==
  /\ last.op = "triggerEntry"
  /\ last.node = 4
  /\ Disabled(4)
  /\ debugBreak(Cur, 4)
  /\ isStepping
  /\ ~isPaused
  /\ queuedChain = <<>>


(***************************************************************************)
(* Properties of property().                                               *)
(***************************************************************************)
\* the updates a fan-out of `value` over `links` sends, one per link
AllUpdates(links, value) ==
  [i \in 1..Len(links) |-> [node |-> links[i].node, name |-> links[i].name, value |-> value]]

\* what C17 says of a step; `everyOutput` tells whether the fan-out reaches every
\* connected output or the outputs on enabled nodes
TriState(everyOutput) ==
  LET c == last'
      old == Slot(nodes[c.node].properties, c.name)
      new == Slot(nodes'[c.node].properties, c.name)
      fired == c.changed = <<[node |-> c.node, name |-> c.name,
                              oldValue |-> old.value, newValue |-> c.value]>>
      fanOut == IF everyOutput THEN AllUpdates(old.outputs, c.value)
                ELSE UpdatesFor(Cur, old.outputs, c.value)
      committed == new.value = c.value /\ fired
      nothing == UNCHANGED program /\ c.changed = <<>>
  IN c.op = "property" =>
       /\ queuedChain' = queuedChain
       /\ c.result = "undefined" =>
            IF c.value = old.value THEN nothing
            ELSE committed /\ queuedProperties' = queuedProperties \o fanOut
       /\ c.result = "true" =>
            committed /\ queuedProperties' = queuedProperties \o fanOut
       /\ c.result = "false" =>
            IF c.value = old.value THEN nothing
            ELSE committed /\ queuedProperties' = queuedProperties

\* C17 as claimed: the fan-out enqueues an update for every connected output
TriStateEveryOutput == [][TriState(TRUE)]_vars

\* C17: property(name, v, forceOrSilent) with forceOrSilent undefined commits v, fires
\* onPropertyChanged and fans out only when v differs from the current value; with true
\* it does all three even when v is the current value; with false it commits a
\* differing v, fires onPropertyChanged and enqueues nothing; the fan-out enqueues one
\* update per connected output whose node is enabled
TriStateEnabledOutputs == [][TriState(FALSE)]_vars

\* a forced write of the value the storage already holds was fanned out to both of its
\* outputs
TriStateWitness ==
  /\ last.op = "property"
  /\ last.result = "true"
  /\ last.changed # <<>>
  /\ last.changed[1].oldValue = last.value
  /\ Len(queuedProperties) >= 2
  /\ SubSeq(queuedProperties, Len(queuedProperties) - 1, Len(queuedProperties))
       = AllUpdates(OutputsOf(1, "value"), last.value)


(***************************************************************************)
(* A node class that overrides onPropertyChanging: a fourth state machine  *)
(* over the same state.  The storage node of the script is of a class      *)
(* whose hook returns the same value on every call.                        *)
(***************************************************************************)
\* what the overriding hook returns: nothing, 0, 1, false, '' or 'Log message.'
HookResults == {Undefined, Num(0), Num(1), Bool(FALSE), Str(0), Str(1)}

\* the script of the debugger, its storage node with a hook that returns r
HookScript(r) == [DebugScript EXCEPT !.nodes[1].changing = r]

InitHooks ==
  \E r \in HookResults :
    /\ Is(HookScript(r))
    /\ last = Call("new", NoNode, "", NoNode, "", Undefined, "", HookScript(r))

NextHooks ==
  \/ Update
  \/ Property
  \/ TriggerProperty /\ last'.node = 4
  \/ Enabled /\ last'.node = 4

SpecHooks == InitHooks /\ [][NextHooks]_vars

\* C18 as claimed: when a property set reaches onPropertyChanging (the write is forced
\* or proposes a value other than the current one) and the hook returns a value r, the
\* property holds r after the call, whatever r is; when the hook returns nothing, it
\* holds the proposed value
HookResultCommitted ==
  [][LET c == last'
         old == Slot(nodes[c.node].properties, c.name)
         new == Slot(nodes'[c.node].properties, c.name)
         r == nodes[c.node].changing
     IN c.op = "property" /\ (c.result = "true" \/ c.value # old.value) =>
          new.value = IF r = Undefined THEN c.value ELSE r]_vars


(***************************************************************************)
(* Properties of disconnect and of a refused connect.                      *)
(***************************************************************************)
DisconnectOps == {"disconnectEntry", "disconnectExit", "disconnectInput", "disconnectOutput"}

DisconnectSide(op) ==
  IF op = "disconnectEntry" THEN "entry"
  ELSE IF op = "disconnectExit" THEN "exit"
  ELSE IF op = "disconnectInput" THEN "input"
  ELSE "output"

\* the call c, made on `side`, is to remove `pair` held by link `name` of node a on side
\* s: the pair is on the named link of the caller and matches the filters (a filter left
\* out matches everything), or it is the reverse of such a pair
Removed(c, side, s, a, name, pair) ==
  LET match(b, other) == /\ c.targetNode = NoNode \/ c.targetNode = b
                         /\ c.targetName = "" \/ c.targetName = other
  IN \/ s = side /\ a = c.node /\ name = c.name /\ match(pair.node, pair.name)
     \/ s = Opposite(side) /\ pair.node = c.node /\ pair.name = c.name /\ match(a, name)

\* what C19 says of a step
DisconnectFrame ==
  LET c == last'
      side == DisconnectSide(c.op)
      After == [nodes |-> nodes']
  IN c.op \in DisconnectOps =>
       IF ~HasSlot(Graph, side, c.node, c.name)
         THEN c.result = "not_found" /\ UNCHANGED program
         ELSE /\ c.result = "success"
              /\ \A a \in NodeIds, s \in Sides :
                   /\ Len(Slots(After, s, a)) = Len(Slots(Graph, s, a))
                   /\ \A i \in 1..Len(Slots(Graph, s, a)) :
                        LinksAt(After, s, a, i)
                          = SelectSeq(LinksAt(Graph, s, a, i),
                                      LAMBDA p : ~Removed(c, side, s, a,
                                                          Slots(Graph, s, a)[i].name, p))

\* C19 as claimed: a disconnect call removes the pairs of the named link that match the
\* filters (all of them when no filter is given) with their reverse pairs, leaves every
\* other pair on both sides as it was, and returns SUCCESS; on a node without the named
\* link it returns NOT_FOUND and changes nothing
DisconnectRemovesExactly == [][DisconnectFrame]_vars


\* C20: a connect call returns NOT_FOUND exactly when the target is not a node or one of
\* the two named endpoints does not exist; then no link list changes, onConnect is fired
\* on neither node and nothing is enqueued; every call ends with one of the three
\* result values
RefusedConnect ==
  [][LET c == last'
         side == SideOf(c.op)
         found == /\ HasSlot(Graph, side, c.node, c.name)
                  /\ HasSlot(Graph, Opposite(side), c.targetNode, c.targetName)
     IN c.op \in ConnectOps =>
          /\ c.result \in {"not_found", "already_connected", "success"}
          /\ c.result = "not_found" <=> ~found
          /\ ~found => UNCHANGED program /\ c.connects = <<>>]_vars

\* connectExit to the entry link '' of node 2, which was removed, is refused while
\* other connections are in place
RefusedConnectWitness ==
  /\ last.op = "connectExit"
  /\ last.result = "not_found"
  /\ last.targetNode = 2 /\ last.targetName = ""
  /\ ~HasSlot(Graph, "entry", 2, "")
  /\ PairCount > 0


(***************************************************************************)
(* Properties of the debugger.                                             *)
(***************************************************************************)
\* the host calls that can put an item into a queue
EnqueueOps == {"triggerEntry", "triggerProperty", "property", "connectOutput"}

\* the nodes for which a step that only appends put an item into a queue
AcceptedNodes ==
  {queuedChain'[i].node : i \in (Len(queuedChain) + 1)..Len(queuedChain')}
    \cup {queuedProperties'[i].node : i \in (Len(queuedProperties) + 1)..Len(queuedProperties')}

\* node n stops the script when an item for it is accepted: it has a breakpoint and
\* the engine is debugging, or the engine is stepping
Breaks(n) == (debugging /\ nodes[n].break) \/ isStepping

\* C12 as claimed: after a step request (paused set to false with stepping true) the
\* request stands whatever trigger, property update or connect call arrives before the
\* tick, and the tick that follows the request handles a batch of what is queued and
\* leaves the engine paused
StepRunsOneBatch ==
  [][last.op = "step" =>
       /\ last'.op \in EnqueueOps => ~isPaused'
       /\ last'.op = "update" =>
            /\ isPaused'
            /\ (queuedChain # <<>> \/ queuedProperties # <<>>) => last'.handled # <<>>]_vars

\* C13 as claimed: accepting an item for a node that has a breakpoint, with the engine
\* not stepping, leaves the engine's paused flag as it was
BreakpointOnlyMarks ==
  [][last'.op \in EnqueueOps /\ ~isStepping /\ (\E n \in AcceptedNodes : nodes[n].break)
       => isPaused' = isPaused]_vars

\* C13: accepting an item for a node that has a breakpoint while the engine is debugging
\* (or for any node while it is stepping) marks the node as paused and sets the engine's
\* paused flag with it; otherwise neither the marks nor the flag change; and a tick of a
\* paused engine handles nothing and changes nothing
BreakpointMarksAndPauses ==
  [][LET c == last'
     IN /\ c.op \in EnqueueOps =>
             /\ \A n \in AcceptedNodes : Breaks(n) => nodes'[n].paused /\ isPaused'
             /\ (\A n \in AcceptedNodes : ~Breaks(n)) =>
                  /\ isPaused' = isPaused
                  /\ \A n \in NodeIds : nodes'[n].paused = nodes[n].paused
        /\ c.op = "update" /\ isPaused => c.handled = <<>> /\ UNCHANGED program]_vars

\* a property update for node 4, which has a breakpoint, was accepted while the engine
\* was debugging, running and not stepping: the node is marked and the engine is paused
BreakpointMarksAndPausesWitness ==
  /\ last.op = "triggerProperty"
  /\ last.node = 4
  /\ queuedProperties # <<>>
  /\ queuedProperties[Len(queuedProperties)].node = 4
  /\ nodes[4].break /\ debugging /\ ~isStepping
  /\ ~last.paused
  /\ nodes[4].paused /\ isPaused

\* C14: with debugging on, a step that accepts an item for a node whose breakpoint is
\* set leaves the engine paused; a paused engine stays paused, handles nothing and
\* keeps every queued item through every call except the host's own paused(false),
\* Step and start(); with debugging off and no stepping, accepting an item for such a
\* node leaves the paused flag as it was
BreakpointPauses ==
  [][LET c == last'
     IN /\ c.op \in EnqueueOps /\ debugging /\ (\E n \in AcceptedNodes : nodes[n].break)
             => isPaused'
        /\ isPaused /\ c.op \notin {"paused", "step", "start"} =>
             /\ isPaused'
             /\ c.handled = <<>>
             /\ IsPrefix(queuedChain, queuedChain')
             /\ IsPrefix(queuedProperties, queuedProperties')
        /\ c.op \in EnqueueOps /\ ~debugging /\ ~isStepping => isPaused' = isPaused]_vars

\* a trigger for node 4, which has a breakpoint, was accepted while the engine was
\* debugging and running: the engine is paused with the trigger still queued
BreakpointPausesWitness ==
  /\ last.op = "triggerEntry"
  /\ last.node = 4
  /\ queuedChain # <<>>
  /\ queuedChain[Len(queuedChain)] = [node |-> 4, name |-> "in"]
  /\ nodes[4].break /\ debugging /\ ~isStepping
  /\ ~last.paused
  /\ isPaused


(***************************************************************************)
(* The running script: a state machine over the same state that begins     *)
(* when the host has built the script and called start(), which installs   *)
(* the timer that keeps firing update().  The host writes no property and  *)
(* triggers nothing: it only restarts the script and uses the debugger.    *)
(***************************************************************************)
InitRunning ==
  /\ Is(start(Script))
  /\ last = Call("start", NoNode, "", NoNode, "", Undefined, "", start(Script))

NextRunning ==
  \/ Update
  \/ Start
  \/ Debugging
  \/ DebugBreak
  \/ Step

\* a call of update() now would change the state or the call record: this is
\* ENABLED <<Update>>_vars, computed from the one successor that Update has
UpdateDue ==
  LET S == update(Cur)
  IN ~Is(S) \/ last # Call("update", NoNode, "", NoNode, "", Undefined, "", S)

\* the timer of start() (setInterval) keeps calling update(): weak fairness of Update,
\* WF_vars(Update), written out with UpdateDue in the place of ENABLED <<Update>>_vars
Ticking == []<>~UpdateDue \/ []<><<Update>>_vars

SpecRunning == InitRunning /\ [][NextRunning]_vars /\ Ticking

\* every property fed by the value of a Storage node holds that value
Synced ==
  \A k \in 1..Len(storageNodes) :
    LET value == Slot(nodes[storageNodes[k]].properties, "value")
    IN \A i \in 1..Len(value.outputs) :
         propertyGet(Cur, value.outputs[i].node, value.outputs[i].name) = value.value

MaxTimers == 3

ThreadScript ==
  LET S1 == NewNode(NewEngine, 1, "wcNodeEntryStart")
      S2 == NewNode(S1, 2, "wcNodeProcessDelay")
      S3 == NewNode(S2, 4, "wcNodeProcessConsoleLog")
      S4 == connectExit(S3, 1, "out", 2, "in").S
      S5 == connectExit(S4, 2, "out", 4, "in").S
  IN connectExit(S5, 2, "finished", 4, "in").S

InitThreads ==
  /\ Is(ThreadScript)
  /\ last = Call("new", NoNode, "", NoNode, "", Undefined, "", ThreadScript)

\* the tokens node code passes that are no timer ids: the first is the one it begins
\* threads with, the second is never the token of a thread
Tokens == {Str(1), Str(2)}

\* the timers the Delay node may still arm
TimerRoom == nodes[2].timeouts + Len(queuedChain) < MaxTimers

\* a host timer armed by the Delay node fires
Timeout ==
  \E id \in nodes[2].timers :
    LET S == delayCallback(Cur, 2, id)
    IN /\ Becomes(S)
       /\ last' = Call("timeout", 2, "finished", NoNode, "", Num(id), "", S)

\* node code calls node.beginThread(token) on the Console Log node
BeginThread ==
  \E n \in {4}, token \in {Str(1)} :
    LET S == beginThread(Cur, n, token)
    IN /\ Len(nodes[n].threads) < MaxTimers
       /\ Becomes(S)
       /\ last' = Call("beginThread", n, "", NoNode, "", token, "", S)

\* node code calls node.finishThread(token) on the Console Log node
FinishThread ==
  \E n \in {4}, token \in Tokens :
    LET S == finishThread(Cur, n, token)
    IN /\ Becomes(S)
       /\ last' = Call("finishThread", n, "", NoNode, "", token, "", S)

\* the host calls destroy() on the Console Log node, once
DestroyLog ==
  LET S == destroy(Cur, 4)
  IN /\ IndexOf(processNodes, 4) # 0
     /\ Becomes(S)
     /\ last' = Call("destroy", 4, "", NoNode, "", Undefined, "", S)

NextThreads ==
  \/ Update
  \/ Start /\ nodes[2].timeouts < MaxTimers
  \/ TriggerEntry /\ last'.node = 2 /\ TimerRoom
  \/ Timeout
  \/ BeginThread
  \/ FinishThread
  \/ DestroyLog

SpecThreads == InitThreads /\ [][NextThreads]_vars

\* C16: in every reachable state a node is awake exactly when its list of thread
\* tokens is not empty
AwakeIffThreads == \A n \in NodeIds : nodes[n].awake <=> nodes[n].threads # <<>>

\* the Delay nodes of the script
Delays == {n \in NodeIds : nodes[n].className = "wcNodeProcessDelay"}

\* how many times the call fired the exit `name` of node n
Fired(call, n, name) ==
  Cardinality({i \in 1..Len(call.fired) : call.fired[i] = [node |-> n, name |-> name]})

\* how many queued triggers of node n the call handled
Triggered(call, n) ==
  Cardinality({i \in 1..Len(call.handled) :
                 call.handled[i].kind = "trigger" /\ call.handled[i].node = n})

\* the thread tokens of node n
ThreadsOf(n) == {nodes[n].threads[i] : i \in 1..Len(nodes[n].threads)}

\* C15: a tick that handles queued triggers of a Delay node fires its out exit once
\* for each of them in that tick, fires finished for none, and arms one timer and
\* begins one thread for each; finished is fired only by the callback of a timer that
\* is still armed, which finishes the thread of that timer; start() leaves the node
\* with no armed timer and no thread, so the timers pending at start() never fire
DelayFinishesLater ==
  [][\A n \in Delays :
       /\ last'.op = "update" =>
            /\ Fired(last', n, "out") = Triggered(last', n)
            /\ Fired(last', n, "finished") = 0
            /\ nodes'[n].timers =
                 nodes[n].timers
                   \cup ((nodes[n].timeouts + 1)..(nodes[n].timeouts + Triggered(last', n)))
            /\ nodes'[n].threads =
                 nodes[n].threads
                   \o [i \in 1..Triggered(last', n) |-> Num(nodes[n].timeouts + i)]
       /\ Fired(last', n, "finished") > 0 =>
            /\ last'.op = "timeout"
            /\ last'.node = n
            /\ Fired(last', n, "finished") = 1
            /\ last'.value.v \in nodes[n].timers
            /\ last'.value \in ThreadsOf(n)
            /\ last'.value.v \notin nodes'[n].timers
            /\ nodes'[n].threads = Splice(nodes[n].threads, IndexOf(nodes[n].threads, last'.value))
       /\ last'.op = "start" =>
            /\ nodes'[n].timers = {}
            /\ nodes'[n].threads = <<>>
            /\ Fired(last', n, "finished") = 0
    ]_vars

\* start() was called while a timer of the Delay node was pending, and left no timer
\* armed and no thread
DelayFinishesLaterWitness ==
  /\ last.op = "start"
  /\ last.timers[2] # {}
  /\ last.threads[2] # <<>>
  /\ nodes[2].timers = {}
  /\ nodes[2].threads = <<>>

(***************************************************************************)
(* Properties of removeEntry, removeExit and removeProperty.               *)
(***************************************************************************)
\* in graph G some link list on side s holds a pair that names link `name` of node n
Referenced(G, s, n, name) ==
  \E a \in NodeIds : \E i \in 1..Len(Slots(G, s, a)) :
    \E k \in 1..Len(LinksAt(G, s, a, i)) :
      LinksAt(G, s, a, i)[k] = [name |-> name, node |-> n]

\* C21 as claimed: removeProperty(name) on an existing property leaves no input or
\* output pair of it on either side, deletes the slot and returns true; on a name the
\* node does not have it returns false and changes nothing
RemovePropertyRemoves ==
  [][LET c == last'
         After == [nodes |-> nodes']
     IN c.op = "removeProperty" =>
          IF HasSlot(Graph, "input", c.node, c.name)
            THEN /\ c.result = "true"
                 /\ ~HasSlot(After, "input", c.node, c.name)
                 /\ ~Referenced(After, "input", c.node, c.name)
                 /\ ~Referenced(After, "output", c.node, c.name)
            ELSE c.result = "false" /\ UNCHANGED program
    ]_vars

RemoveFlowOps == {"removeEntry", "removeExit"}

RemoveSide(op) == IF op = "removeEntry" THEN "entry" ELSE "exit"

\* what C22 says of a step
RemoveFlowFrame ==
  LET c == last'
      side == RemoveSide(c.op)
      n == c.node
      After == [nodes |-> nodes']
      i == IndexOfName(Slots(Graph, side, n), c.name)
  IN c.op \in RemoveFlowOps =>
       IF i # 0
         THEN /\ c.result = "true"
              /\ ~Referenced(After, Opposite(side), n, c.name)
              /\ Slots(After, side, n) = Splice(Slots(Graph, side, n), i)
              /\ Len(Slots(After, Opposite(side), n)) = Len(Slots(Graph, Opposite(side), n))
              /\ \A k \in 1..Len(Slots(Graph, Opposite(side), n)) :
                   /\ Slots(After, Opposite(side), n)[k].name
                        = Slots(Graph, Opposite(side), n)[k].name
                   /\ LinksAt(After, Opposite(side), n, k)
                        = SelectSeq(LinksAt(Graph, Opposite(side), n, k),
                                    LAMBDA p : p # [name |-> c.name, node |-> n])
              /\ nodes'[n].properties = nodes[n].properties
         ELSE c.result = "false" /\ UNCHANGED program

\* C22 as claimed: removeEntry(name) and removeExit(name) on an existing link leave no
\* pair of it on either side, delete the slot and return true, and every other link of
\* the node keeps its pairs; on a name the node does not have they return false and
\* change nothing
RemoveFlowRemoves == [][RemoveFlowFrame]_vars

(***************************************************************************)
(* Properties of destroy and of the engine's partitions.                   *)
(***************************************************************************)
\* the four partitions after the step
PartitionsAfter ==
  [storageNodes |-> storageNodes', processNodes |-> processNodes',
   compositeNodes |-> compositeNodes', entryNodes |-> entryNodes']

\* C23: after node.destroy() no link list of any node holds a pair that names the
\* destroyed node, every link list and the thread list of the destroyed node are empty,
\* and the node is in no partition of the engine, so that nodeById does not return it
DestroyDetaches ==
  [][LET c == last'
         n == c.node
         After == [nodes |-> nodes']
     IN c.op = "destroy" =>
          /\ \A a \in NodeIds, s \in Sides :
               \A i \in 1..Len(Slots(After, s, a)) :
                 /\ \A k \in 1..Len(LinksAt(After, s, a, i)) :
                      LinksAt(After, s, a, i)[k].node # n
                 /\ a = n => LinksAt(After, s, a, i) = <<>>
          /\ nodes'[n].threads = <<>>
          /\ IndexOf(storageNodes', n) = 0
          /\ IndexOf(processNodes', n) = 0
          /\ IndexOf(compositeNodes', n) = 0
          /\ IndexOf(entryNodes', n) = 0
          /\ nodeById(PartitionsAfter, n) = NoNode
    ]_vars

\* destroy() of the Console Log node found it registered, with threads outstanding and
\* with chains from the exits of the Delay node, and left none of them
DestroyDetachesWitness ==
  /\ last.op = "destroy"
  /\ last.threads[4] # <<>>
  /\ last.pairs > PairCount
  /\ nodes[4].threads = <<>>
  /\ IndexOf(processNodes, 4) = 0
  /\ nodes[4].entry[1].links = <<>>
  /\ nodes[2].exit[1].links = <<>>

(***************************************************************************)
(* The host builds and clears the script: a state machine over the same    *)
(* state that starts from an engine without nodes.  The host constructs    *)
(* nodes, chains them, triggers them, creates script properties, destroys  *)
(* nodes and clears the script.                                            *)
(***************************************************************************)
InitNodes ==
  /\ Is(NewEngine)
  /\ last = Call("new", NoNode, "", NoNode, "", Undefined, "", NewEngine)

\* the class the host constructs at each id
ClassOf == <<"wcNodeStorageNumber", "wcNodeProcessConsoleLog", "wcNodeEntryStart",
             "wcNodeProcessConsoleLog">>

\* the host calls new <class>(engine)
Construct ==
  \E id \in NodeIds :
    LET S == NewNode(Cur, id, ClassOf[id])
    IN /\ nodes[id].className = "none"
       /\ Becomes(S)
       /\ last' = Call("construct", id, ClassOf[id], NoNode, "", Undefined, "", S)

\* the host calls node.destroy() on a node it has constructed, destroyed before or not
DestroyNode ==
  \E n \in NodeIds :
    LET S == destroy(Cur, n)
    IN /\ nodes[n].className # "none"
       /\ Becomes(S)
       /\ last' = Call("destroy", n, "", NoNode, "", Undefined, "", S)

\* the host calls engine.clear()
Clear ==
  LET S == clear(Cur)
  IN /\ Becomes(S)
     /\ last' = Call("clear", NoNode, "", NoNode, "", Undefined, "", S)

\* the host calls engine.createProperty(name, type, initialValue)
PlayCreateProperty ==
  LET S == playCreateProperty(Cur, "speed", Num(0))
  IN /\ Becomes(S)
     /\ last' = Call("playCreateProperty", NoNode, "speed", NoNode, "", Num(0), "", S)

\* the host chains the exit of the Start node to the entry of a Console Log node
Chain ==
  \E e \in {<<3, "out">>}, t \in {<<2, "in">>, <<4, "in">>} :
    LET r == connectExit(Cur, e[1], e[2], t[1], t[2])
    IN /\ nodes[e[1]].className # "none"
       /\ nodes[t[1]].className # "none"
       /\ Becomes(r.S)
       /\ last' = Call("connectExit", e[1], e[2], t[1], t[2], Undefined, r.result, r.S)

NextNodes ==
  \/ Construct
  \/ DestroyNode
  \/ Clear
  \/ PlayCreateProperty
  \/ Chain
  \/ TriggerEntry /\ last'.node = 2

SpecNodes == InitNodes /\ [][NextNodes]_vars

\* how many times the sequence holds x
Occurs(seq, x) == Cardinality({i \in 1..Len(seq) : seq[i] = x})

Kinds == {"entry", "process", "storage", "composite"}

\* the partition of the engine for a kind
Partition(kind) ==
  IF kind = "entry" THEN entryNodes
  ELSE IF kind = "process" THEN processNodes
  ELSE IF kind = "storage" THEN storageNodes
  ELSE compositeNodes

\* node n is held once by the partition of its kind and by no other partition
InOwnPartition(n) ==
  \A kind \in Kinds :
    Occurs(Partition(kind), n) = IF kind = NODE_TYPE(nodes[n].className) THEN 1 ELSE 0

\* C24 as claimed: the construction of a node puts it once into the partition of its
\* kind and into no other, every step that is neither its destruction nor clear()
\* keeps it so, and clear() leaves the four partitions, both queues and the list of
\* script properties empty
PartitionsKept ==
  [][/\ \A n \in NodeIds :
          /\ last'.op = "construct" /\ last'.node = n => InOwnPartition(n)'
          /\ (/\ nodes[n].className # "none"
              /\ InOwnPartition(n)
              /\ ~(last'.op = "destroy" /\ last'.node = n)
              /\ last'.op # "clear") => InOwnPartition(n)'
     /\ last'.op = "clear" =>
          /\ \A kind \in Kinds : Partition(kind)' = <<>>
          /\ queuedChain' = <<>>
          /\ queuedProperties' = <<>>
          /\ properties' = <<>>
    ]_vars

(***************************************************************************)
(* Initial values: a state machine over the same state in which the host   *)
(* sets values and initial values of the storage node and of the script    *)
(* property, restarts the script and lets it tick.                         *)
(***************************************************************************)
\* the host calls node.initialProperty(name, value) on the storage node
InitialProperty ==
  \E value \in HostValues :
    LET S == initialProperty(Cur, 1, "value", value)
    IN /\ Room
       /\ Becomes(S)
       /\ last' = Call("initialProperty", 1, "value", NoNode, "", value, "", S)

\* the host calls engine.initialProperty(name, value)
PlayInitialProperty ==
  \E value \in HostValues :
    LET S == playInitialProperty(Cur, "speed", value)
    IN /\ Becomes(S)
       /\ last' = Call("playInitialProperty", NoNode, "speed", NoNode, "", value, "", S)

NextInitial ==
  \/ InitialProperty
  \/ PlayInitialProperty
  \/ Property
  \/ PlayProperty
  \/ Update
  \/ Start

SpecInitial == Init /\ [][NextInitial]_vars

\* C25: node.initialProperty(name, v) and engine.initialProperty(name, v) leave the
\* initial value at v; the value follows to v when it was equal to the initial value
\* before the call and stays as it was when it differed
InitialPropertyCouples ==
  [][LET c == last'
     IN /\ c.op = "initialProperty" =>
             LET old == Slot(nodes[c.node].properties, c.name)
                 new == Slot(nodes'[c.node].properties, c.name)
             IN /\ new.initialValue = c.value
                /\ new.value = IF old.value = old.initialValue THEN c.value ELSE old.value
        /\ c.op = "playInitialProperty" =>
             LET old == Slot(properties, c.name)
                 new == Slot(properties', c.name)
             IN /\ new.initialValue = c.value
                /\ new.value = IF old.value = old.initialValue THEN c.value ELSE old.value
    ]_vars

\* node.initialProperty found the value of the storage node equal to its initial value
\* and moved both to another value
InitialPropertyCouplesWitness ==
  /\ last.op = "initialProperty"
  /\ Len(last.changed) = 1
  /\ last.changed[1].oldValue # last.value
  /\ Slot(nodes[1].properties, "value").value = last.value
  /\ Slot(nodes[1].properties, "value").initialValue = last.value

(***************************************************************************)
(* Remote events: a state machine over the same state in which the host    *)
(* has built two entry nodes named "a" (1 and 3) that lead to two Console  *)
(* Log nodes (2 and 4).  The entry classes may override triggerCondition.  *)
(* The host sends events, disables and enables nodes, and the timer ticks. *)
(***************************************************************************)
EventScript(c1, c3) ==
  LET S1 == NewNode(NewEngine, 1, "wcNodeEntry")
      S2 == NewNode(S1, 2, "wcNodeProcessConsoleLog")
      S3 == NewNode(S2, 3, "wcNodeEntry")
      S4 == NewNode(S3, 4, "wcNodeProcessConsoleLog")
      S5 == [S4 EXCEPT !.nodes[1].name = "a", !.nodes[1].condition = c1,
                       !.nodes[3].name = "b", !.nodes[3].condition = c3]
      S6 == connectExit(S5, 1, "out", 2, "in").S
      S7 == connectExit(S6, 1, "out", 4, "in").S
  IN connectExit(S7, 3, "out", 4, "in").S

InitEvents ==
  \E c1 \in BOOLEAN, c3 \in BOOLEAN :
    /\ Is(EventScript(c1, c3))
    /\ last = Call("new", NoNode, "", NoNode, "", Undefined, "", EventScript(c1, c3))

\* the names of the events the host sends; no entry node is named "c"
EventNames == {"a", "b", "c"}

\* the host calls engine.triggerEvent(name, data)
RemoteEvent ==
  \E name \in EventNames :
    LET S == triggerEvent(Cur, name, "")
    IN /\ Room
       /\ Becomes(S)
       /\ last' = Call("triggerEvent", NoNode, name, NoNode, "", Undefined, "", S)

\* the host gives an entry node another name (node.name = name)
Rename ==
  \E n \in {3}, name \in {"a", "b"} :
    /\ nodes' = [nodes EXCEPT ![n].name = name]
    /\ last' = Call("name", n, name, NoNode, "", Undefined, "", Cur)
    /\ UNCHANGED <<entryNodes, processNodes, compositeNodes, storageNodes, properties,
                   queuedChain, queuedProperties, isPaused, isStepping, debugging>>

NextEvents ==
  \/ RemoteEvent
  \/ Rename
  \/ Enabled
  \/ Update

SpecEvents == InitEvents /\ [][NextEvents]_vars

\* the queue items that triggerEvent(name) is to add: for each entry node of that name
\* whose condition passes, from index i, the pairs of its out exit -- all of them, or
\* only those whose node is enabled
RECURSIVE EventTargets(_, _, _)
EventTargets(name, i, all) ==
  IF i > Len(entryNodes) THEN <<>>
  ELSE LET e == entryNodes[i]
           mine == IF nodes[e].name = name /\ nodes[e].condition
                     THEN SelectSeq(Slot(nodes[e].exit, "out").links,
                                    LAMBDA p : all \/ Truthy(enabled(Cur, p.node)))
                     ELSE <<>>
       IN mine \o EventTargets(name, i + 1, all)

\* the entry nodes named `name`, in the order of the partition
Named(name) == SelectSeq(entryNodes, LAMBDA e : nodes[e].name = name)

\* what a triggerEvent step does: the handlers that run are those of the entry nodes of
\* that name, one each and no other, and the queue grows by the given items
EventStep(all) ==
  LET c == last'
  IN c.op = "triggerEvent" =>
       /\ Len(c.handled) = Len(Named(c.name))
       /\ \A i \in 1..Len(c.handled) :
            c.handled[i].kind = "trigger" /\ c.handled[i].node = Named(c.name)[i]
       /\ c.maxDepth <= 1
       /\ queuedChain' = queuedChain \o EventTargets(c.name, 1, all)
       /\ queuedProperties' = queuedProperties

\* C26 as claimed: triggerEvent(name, data) runs the handler of exactly the entry nodes
\* of that name; each whose condition passes enqueues every node connected to its out
\* exit, the others enqueue nothing, and no downstream handler runs inside the call
EventEnqueuesAll == [][EventStep(TRUE)]_vars

\* C26: as above, with the nodes connected to the out exit enqueued when they are
\* enabled; a disabled node connected to the exit is not enqueued
EventEnqueuesEnabled == [][EventStep(FALSE)]_vars

\* an event named "a" reached both entry nodes; the condition of the first passed and
\* enqueued the enabled Console Log node 2, not the disabled node 4, and the condition of
\* the second failed
EventEnqueuesEnabledWitness ==
  /\ last.op = "triggerEvent"
  /\ last.name = "a"
  /\ Len(last.handled) = 2
  /\ nodes[1].condition /\ ~nodes[3].condition
  /\ ~Truthy(enabled(Cur, 4))
  /\ queuedChain = <<[name |-> "in", node |-> 2]>>

(***************************************************************************)
(* The Operation node.  The script of this specification has an Operation  *)
(* node (2) whose out exit leads to two Console Log nodes (3 and 4).  The  *)
(* host writes the operands, triggers the four entries, disables and       *)
(* enables Console Log node 4, and the timer ticks.                        *)
(***************************************************************************)
OperationNode == NewNode(NewEngine, 2, "wcNodeProcessOperation")

OperationScript ==
  LET S1 == NewNode(OperationNode, 3, "wcNodeProcessConsoleLog")
      S2 == NewNode(S1, 4, "wcNodeProcessConsoleLog")
      S3 == connectExit(S2, 2, "out", 3, "in").S
  IN connectExit(S3, 2, "out", 4, "in").S

InitOperation ==
  /\ Is(OperationScript)
  /\ last = Call("new", NoNode, "", NoNode, "", Undefined, "", OperationScript)

\* the operands a host writes
Operands == {Num(0), Num(2), Num(4)}

\* the entries of the Operation node
OperationNames == {"add", "sub", "mul", "div"}

\* the host calls node.property('valueA' or 'valueB', value)
Operand ==
  \E name \in {"valueA", "valueB"}, value \in Operands :
    LET S == property(Cur, 2, name, value, "undefined")
    IN /\ Becomes(S)
       /\ last' = Call("property", 2, name, NoNode, "", value, "undefined", S)

\* the host calls node.triggerEntry(name) on the Operation node
Operate ==
  \E name \in OperationNames :
    LET S == triggerEntry(Cur, 2, name)
    IN /\ Room
       /\ Becomes(S)
       /\ last' = Call("triggerEntry", 2, name, NoNode, "", Undefined, "", S)

NextOperation ==
  \/ Operand
  \/ Operate
  \/ Enabled /\ last'.node = 4
  \/ Update

SpecOperation == InitOperation /\ [][NextOperation]_vars

\* the quotient of two integers as a JavaScript number
Quotient(a, b) ==
  IF b = 0 THEN (IF a = 0 THEN NaN ELSE Infinity(1))
  ELSE IF \E q \in 0..a : q * b = a THEN Num(CHOOSE q \in 0..a : q * b = a)
  ELSE Fraction

\* the value the operation `name` has on the integers a and b
Arithmetic(name, a, b) ==
  CASE name = "add" -> Num(a + b)
    [] name = "sub" -> Num(a - b)
    [] name = "mul" -> Num(a * b)
    [] name = "div" -> Quotient(a, b)

\* the triggers of the Operation node that a call handled, oldest first
Operated(c) == SelectSeq(c.handled, LAMBDA h : h.kind = "trigger" /\ h.node = 2)

\* the queue items one firing of the out exit is to add: all its pairs, or only those
\* whose node is enabled
OutTargets(all) ==
  SelectSeq(Slot(nodes[2].exit, "out").links, LAMBDA p : all \/ Truthy(enabled(Cur, p.node)))

\* the given items, k times over
RECURSIVE Repeat(_, _)
Repeat(items, k) == IF k = 0 THEN <<>> ELSE items \o Repeat(items, k - 1)

\* what a tick that handles triggers of the Operation node does: result is the operation
\* of the last of them on valueA and valueB, the out exit fires once per trigger, and
\* the queue loses the handled items and grows by the given items once per trigger
OperationStep(all) ==
  LET c == last'
      ops == Operated(c)
      a == propertyGet(Cur, 2, "valueA")
      b == propertyGet(Cur, 2, "valueB")
  IN (c.op = "update" /\ Len(ops) > 0) =>
       /\ propertyGet(Cur, 2, "result")' = Arithmetic(ops[Len(ops)].name, a.v, b.v)
       /\ propertyGet(Cur, 2, "valueA")' = a
       /\ propertyGet(Cur, 2, "valueB")' = b
       /\ SelectSeq(c.fired, LAMBDA f : f.node = 2)
            = [i \in 1..Len(ops) |-> [node |-> 2, name |-> "out"]]
       /\ queuedChain' = Drop(queuedChain, Len(c.handled)) \o Repeat(OutTargets(all), Len(ops))

\* C27 as claimed: a tick that handles a queued trigger of add, sub, mul or div of an
\* Operation node sets result to a+b, a-b, a*b or a/b of its valueA = a and valueB = b,
\* and enqueues each node connected to exit out once per handled trigger, also when
\* result keeps its value
OperationEnqueuesAll == [][OperationStep(TRUE)]_vars

\* C27: as above, with the nodes connected to exit out enqueued when they are enabled;
\* a disabled node connected to the exit is not enqueued
OperationEnqueuesEnabled == [][OperationStep(FALSE)]_vars

\* a tick divided 4 by 2 while result was 2 already: result is 2, no property changed,
\* and both Console Log nodes are queued
OperationEnqueuesEnabledWitness ==
  /\ last.op = "update"
  /\ Len(Operated(last)) = 1
  /\ Operated(last)[1].name = "div"
  /\ propertyGet(Cur, 2, "valueA") = Num(4)
  /\ propertyGet(Cur, 2, "valueB") = Num(2)
  /\ propertyGet(Cur, 2, "result") = Num(2)
  /\ last.changed = <<>>
  /\ queuedChain = <<[node |-> 3, name |-> "in"], [node |-> 4, name |-> "in"]>>

(***************************************************************************)
(* Creating links and properties.  On the script of Init the host calls    *)
(* createEntry, createExit and createProperty on Console Log node 2 with   *)
(* names that are present and names that are not, triggers entries, and    *)
(* the timer ticks.                                                        *)
(***************************************************************************)
\* the names the host creates; "in" is an entry, "out" an exit and "message" a
\* property of the node from its construction
CreateNames == {"in", "out", "message"}

\* the host calls node.createEntry(name)
CreateEntry ==
  \E name \in CreateNames :
    LET S == createEntry(Cur, 2, name)
    IN /\ Becomes(S)
       /\ last' = Call("createEntry", 2, name, NoNode, "", Undefined,
                       IF Created(Cur.nodes[2].entry, name) THEN "true" ELSE "false", S)

\* the host calls node.createExit(name)
CreateExit ==
  \E name \in CreateNames :
    LET S == createExit(Cur, 2, name)
    IN /\ Becomes(S)
       /\ last' = Call("createExit", 2, name, NoNode, "", Undefined,
                       IF Created(Cur.nodes[2].exit, name) THEN "true" ELSE "false", S)

\* the host calls node.createProperty(name, type, initialValue)
CreateProperty ==
  \E name \in CreateNames, value \in {Undefined, Num(1)} :
    LET S == createProperty(Cur, 2, name, value)
    IN /\ Becomes(S)
       /\ last' = Call("createProperty", 2, name, NoNode, "", value,
                       IF Created(Cur.nodes[2].properties, name) THEN "true" ELSE "false", S)

NextCreate ==
  \/ CreateEntry
  \/ CreateExit
  \/ CreateProperty
  \/ TriggerEntry
  \/ Update

SpecCreate == Init /\ [][NextCreate]_vars

\* the names of the slots, in order
NamesOf(slots) == [i \in 1..Len(slots) |-> slots[i].name]

\* no two elements of s are equal
Distinct(s) == \A i, j \in 1..Len(s) : i # j => s[i] # s[j]

\* on every node the entry names, the exit names and the property names are each
\* pairwise distinct
NamesDistinct ==
  \A n \in NodeIds :
    /\ Distinct(NamesOf(nodes[n].entry))
    /\ Distinct(NamesOf(nodes[n].exit))
    /\ Distinct(NamesOf(nodes[n].properties))

\* the list of node n that a create call works on, among the node objects ns
CreateSide(ns, op, n) ==
  CASE op = "createEntry" -> ns[n].entry
    [] op = "createExit" -> ns[n].exit
    [] op = "createProperty" -> ns[n].properties

\* what a create call does: with a name present on its side it returns false and
\* changes nothing; with another name it returns true and its side has the name, once,
\* at the end, whatever the other sides hold
CreateStep ==
  LET c == last'
  IN c.op \in {"createEntry", "createExit", "createProperty"} =>
       LET before == NamesOf(CreateSide(nodes, c.op, c.node))
           after == NamesOf(CreateSide(nodes', c.op, c.node))
       IN IF \E i \in 1..Len(before) : before[i] = c.name
            THEN c.result = "false" /\ UNCHANGED <<nodes, entryNodes, processNodes, compositeNodes,
                                                        storageNodes, properties, queuedChain,
                                                        queuedProperties, isPaused, isStepping,
                                                        debugging>>
            ELSE c.result = "true" /\ after = Append(before, c.name)

\* C28: on every node, at all times, entry names, exit names and property names are
\* each pairwise distinct; createEntry, createExit and createProperty with a name
\* present on that side return false and change nothing, and a name may be once an
\* entry and once an exit
CreateKeepsNamesDistinct == []NamesDistinct /\ [][CreateStep]_vars

\* createEntry('out') was refused on a node that holds "out" once as an entry and once
\* as an exit
CreateKeepsNamesDistinctWitness ==
  /\ last.op = "createEntry"
  /\ last.name = "out"
  /\ last.result = "false"
  /\ Len(SelectSeq(nodes[2].entry, LAMBDA e : e.name = "out")) = 1
  /\ Len(SelectSeq(nodes[2].exit, LAMBDA e : e.name = "out")) = 1

(***************************************************************************)
(* Threads begun with a function.  On the script of Init the code of       *)
(* Console Log node 4 arms a host timer and begins a thread with a         *)
(* function that clears that timer; the host starts the script, triggers   *)
(* and destroys the node, the timers fire and the timer ticks.             *)
(***************************************************************************)
\* the function the node code passes to beginThread: called, it clears timer id of
\* the node
Cancel(id) == [t |-> "fn", v |-> id]

\* node code: var id = setTimeout(callback, delay); this.beginThread(function() {
\* clearTimeout(id); }) -- run by a node of the script
BeginCancellable ==
  LET S1 == setTimeout(Cur, 4)
      id == S1.nodes[4].timeouts
      S == beginThread(S1, 4, Cancel(id))
  IN /\ nodes[4].timeouts < MaxTimers
     /\ IndexOf(processNodes, 4) # 0
     /\ Becomes(S)
     /\ last' = Call("beginThread", 4, "", NoNode, "", Cancel(id), "", S)

\* a host timer armed by node 4 fires: the callback fires the exit and finishes the
\* thread
TimeoutLog ==
  \E id \in nodes[4].timers :
    LET S1 == clearTimeout(Cur, 4, id)
        S2 == triggerExit(S1, 4, "out")
        S == finishThread(S2, 4, Cancel(id))
    IN /\ Becomes(S)
       /\ last' = Call("timeout", 4, "out", NoNode, "", Num(id), "", S)

NextCancel ==
  \/ BeginCancellable
  \/ TimeoutLog
  \/ Start
  \/ DestroyLog
  \/ TriggerEntry /\ last'.node = 4
  \/ Update

SpecCancel == Init /\ [][NextCancel]_vars

\* the timers that the functions among the thread tokens of node n clear
Cancellable(n) ==
  {nodes[n].threads[i].v : i \in {j \in 1..Len(nodes[n].threads) : nodes[n].threads[j].t = "fn"}}

\* the nodes whose operation a call cancels
CancelledBy(c) ==
  IF c.op = "start"
    THEN {n \in NodeIds : IndexOf(entryNodes \o processNodes \o storageNodes, n) # 0}
  ELSE IF c.op = "destroy" THEN {c.node}
  ELSE {}

\* C29 as claimed: when start() or destroy() cancels the operation of a node, each
\* function that began one of its threads is called, so the timer that function
\* clears is no longer armed and its callback cannot fire the exit afterwards
CancelCallsFunction ==
  [][\A n \in CancelledBy(last') : Cancellable(n) \cap nodes'[n].timers = {}]_vars

(***************************************************************************)
(* Properties of a paused engine.                                          *)
(***************************************************************************)
\* what a step does to a paused engine and what the next tick of a running engine
\* handles: a tick of a paused engine handles nothing and changes nothing; whatever is
\* called while the engine is paused keeps the items of both queues in place, new ones
\* behind them; a tick of a running engine handles items from the head of the queues,
\* in order, and at least one when there is one
PausedStep ==
  LET c == last'
  IN /\ (c.op = "update" /\ isPaused) =>
          /\ c.handled = <<>>
          /\ UNCHANGED <<nodes, entryNodes, processNodes, compositeNodes, storageNodes,
                         properties, queuedChain, queuedProperties, isPaused, isStepping,
                         debugging>>
     /\ isPaused =>
          /\ IsPrefix(queuedChain, queuedChain')
          /\ IsPrefix(queuedProperties, queuedProperties')
     /\ (c.op = "update" /\ ~isPaused) =>
          /\ IsPrefix(HandledProperties(c), queuedProperties)
          /\ IsPrefix(HandledTriggers(c), queuedChain)
          /\ Len(queuedProperties) + Len(queuedChain) > 0 => Len(c.handled) > 0

\* C30: while the engine is paused a tick handles no item and leaves both queues, every
\* property value and the stepping flag unchanged; triggers and property updates
\* accepted while paused stay queued in arrival order, and a tick after the host
\* unpauses handles them from the head of the queues
PausedTickIdle == [][PausedStep]_vars

\* a tick found the engine paused with a trigger and a property update queued, and both
\* are still queued
PausedTickIdleWitness ==
  /\ last.op = "update"
  /\ last.paused
  /\ isPaused
  /\ Len(queuedChain) > 0
  /\ Len(queuedProperties) > 0

(***************************************************************************)
(* Cyclic scripts: three Console Log nodes.  The flow of node 2 goes to    *)
(* node 4 and back, the message of node 2 feeds the message of node 4 and  *)
(* back, and node 3 is connected to itself, exit to entry and message to   *)
(* message.  The host triggers entries and writes messages; the timer of   *)
(* the engine keeps calling update().                                      *)
(***************************************************************************)
CycleNodes ==
  NewNode(NewNode(NewNode(NewEngine, 2, "wcNodeProcessConsoleLog"),
                  3, "wcNodeProcessConsoleLog"),
          4, "wcNodeProcessConsoleLog")

CycleFlow ==
  connectExit(connectExit(connectExit(CycleNodes, 2, "out", 4, "in").S,
                          4, "out", 2, "in").S,
              3, "out", 3, "in").S

CycleScript ==
  connectOutput(connectOutput(connectOutput(CycleFlow, 2, "message", 4, "message").S,
                              4, "message", 2, "message").S,
                3, "message", 3, "message").S

InitCycles ==
  /\ Is(CycleScript)
  /\ last = Call("new", NoNode, "", NoNode, "", Undefined, "", CycleScript)

\* the host calls node.triggerEntry('in') on a node of the script
TriggerCycle ==
  \E n \in {2, 3, 4} :
    LET S == triggerEntry(Cur, n, "in")
    IN /\ Room
       /\ Becomes(S)
       /\ last' = Call("triggerEntry", n, "in", NoNode, "", Undefined, "", S)

\* the host calls node.property('message', value)
WriteMessage ==
  \E n \in {2, 3, 4}, value \in HostValues :
    LET S == property(Cur, n, "message", value, "undefined")
    IN /\ Room
       /\ Becomes(S)
       /\ last' = Call("property", n, "message", NoNode, "", value, "undefined", S)

NextCycles ==
  \/ TriggerCycle
  \/ WriteMessage
  \/ Update

\* setInterval keeps calling update(): a tick is never put off for ever
SpecCycles == InitCycles /\ [][NextCycles]_vars /\ Ticking

\* C31: a call of update() handles at most updateLimit queued property updates and at
\* most updateLimit queued triggers and returns, also in a script with a flow cycle, a
\* property cycle and self-connections; what it handles from a queue was in that queue,
\* at its head, when the call began, so that an item a handler enqueued during the call
\* waits for a later call
DrainsOnlyWhatWasQueued ==
  [][ last'.op = "update" =>
        /\ Len(HandledProperties(last')) <= updateLimit
        /\ Len(HandledTriggers(last')) <= updateLimit
        /\ IsPrefix(HandledProperties(last'), queuedProperties)
        /\ IsPrefix(HandledTriggers(last'), queuedChain)
        /\ Len(queuedProperties') >= Len(queuedProperties) - Len(HandledProperties(last'))
        /\ Len(queuedChain') >= Len(queuedChain) - Len(HandledTriggers(last'))
    ]_vars

\* C31 witness: a tick found only the trigger of node 3 queued, handled it, and left
\* the trigger that the handler enqueued through the self-connection for a later tick
DrainsOnlyWhatWasQueuedWitness ==
  /\ last.op = "update"
  /\ HandledTriggers(last) = <<[node |-> 3, name |-> "in"]>>
  /\ queuedChain = <<[node |-> 3, name |-> "in"]>>
  /\ queuedProperties = <<>>

(***************************************************************************)
(* The order of notification: a state machine over the same state in which *)
(* the host constructs two Toggle storage nodes, a Console Log node and a  *)
(* Start node in any order, feeds the log node from the storage nodes,     *)
(* chains it to the Start node, and starts the script.                     *)
(***************************************************************************)
\* the class the host constructs at each id
OrderClassOf == <<"wcNodeStorageToggle", "wcNodeProcessConsoleLog", "wcNodeEntryStart",
                  "wcNodeStorageToggle">>

\* the host calls new <class>(engine)
ConstructOrdered ==
  \E id \in NodeIds :
    LET S == NewNode(Cur, id, OrderClassOf[id])
    IN /\ nodes[id].className = "none"
       /\ Becomes(S)
       /\ last' = Call("construct", id, OrderClassOf[id], NoNode, "", Undefined, "", S)

\* the host calls connectOutput on a storage value or connectExit on the Start node
Wire ==
  \E w \in {<<1, "value", "message">>, <<4, "value", "debug log">>, <<3, "out", "in">>} :
    LET r == IF w[1] = 3 THEN connectExit(Cur, 3, w[2], 2, w[3])
             ELSE connectOutput(Cur, w[1], w[2], 2, w[3])
    IN /\ nodes[w[1]].className # "none"
       /\ nodes[2].className # "none"
       /\ Room
       /\ Becomes(r.S)
       /\ last' = Call(IF w[1] = 3 THEN "connectExit" ELSE "connectOutput",
                       w[1], w[2], 2, w[3], Undefined, r.result, r.S)

\* the host calls node.property('value', b) on a storage node
Toggle ==
  \E n \in {1, 4}, b \in BOOLEAN :
    LET S == property(Cur, n, "value", Bool(b), "undefined")
    IN /\ nodes[n].className # "none"
       /\ Room
       /\ Becomes(S)
       /\ last' = Call("property", n, "value", NoNode, "", Bool(b), "undefined", S)

NextOrder ==
  \/ ConstructOrdered
  \/ Wire
  \/ Toggle
  \/ Start
  \/ Update

SpecOrder == InitNodes /\ [][NextOrder]_vars

TriggersEventuallyHandled ==
  [][ last'.op = "update" /\ queuedChain # <<>> =>
        HandledTriggers(last') # <<>> \/ ~UNCHANGED program ]_vars

\* C34 as claimed, on a finite run: the property queue of a script with a cycle of
\* property links becomes empty through the ticks alone once the host has stopped
\* writing, so no tick that finds property updates queued leaves the queue and every
\* property value as it found them
PropertyCycleSettles ==
  [][ last'.op = "update" /\ queuedProperties # <<>> =>
        queuedProperties' # queuedProperties \/ nodes' # nodes ]_vars

(***************************************************************************)
(* Accepted items.                                                         *)
(***************************************************************************)
\* the triggers a call accepted into the flow queue, in order
AcceptedTriggers(call) == SelectSeq(call.accepted, LAMBDA a : "value" \notin DOMAIN a)

\* the property updates a call accepted into the property queue, in order
AcceptedProperties(call) == SelectSeq(call.accepted, LAMBDA a : "value" \in DOMAIN a)

\* C35: a call other than start() (and clear()) neither drops nor repeats an item.  A
\* tick hands each item it takes from a queue to its handler once: the items that
\* were queued followed by the items the tick accepted are the items it handled
\* followed by the items that are queued after it, for each queue.  Any other call
\* leaves what was queued and appends what it accepted.  So each accepted item is
\* handled exactly once, and n accepted triggers of an entry link are n onTriggered
\* invocations with that name
HandledExactlyOnce ==
  [][ last'.op \notin {"start", "clear"} =>
        IF last'.op = "update"
          THEN /\ queuedChain \o AcceptedTriggers(last')
                    = HandledTriggers(last') \o queuedChain'
               /\ queuedProperties \o AcceptedProperties(last')
                    = HandledProperties(last') \o queuedProperties'
          ELSE /\ queuedChain' = queuedChain \o AcceptedTriggers(last')
               /\ queuedProperties' = queuedProperties \o AcceptedProperties(last')
    ]_vars

\* C35 witness: two accepted triggers of the entry in of node 4 were handled by a tick
\* as two onTriggered invocations and nothing is left queued
HandledExactlyOnceWitness ==
  /\ last.op = "update"
  /\ Len(HandledTriggers(last)) = 2
  /\ \A i \in 1..2 : HandledTriggers(last)[i] = [node |-> 4, name |-> "in"]
  /\ queuedChain = <<>>

(***************************************************************************)
(* The tick timer: a state machine over the same state in which update()   *)
(* runs only from an interval timer that start() has armed.  The history   *)
(* variable also counts, as `intervals`, the interval timers armed so far; *)
(* the engine clears none.                                                 *)
(***************************************************************************)
\* the most interval timers the host lets the engine arm
MaxIntervals == 3

InitTimer ==
  /\ Is(Script)
  /\ last = Call("new", NoNode, "", NoNode, "", Undefined, "", Script) @@ [intervals |-> 0]

\* the host calls engine.start()
Restart ==
  LET S == start(Cur)
  IN /\ last.intervals < MaxIntervals
     /\ Becomes(S)
     /\ last' = Call("start", NoNode, "", NoNode, "", Undefined, "", S)
                  @@ [intervals |-> last.intervals + S.armed]

\* an interval timer fires: engine.update()
Tick ==
  LET S == update(Cur)
  IN /\ last.intervals > 0
     /\ Becomes(S)
     /\ last' = Call("update", NoNode, "", NoNode, "", Undefined, "", S)
                  @@ [intervals |-> last.intervals]

\* the host calls node.property('value', value, forceOrSilent) on the storage node
Feed ==
  \E value \in HostValues, forceOrSilent \in {"undefined", "true"} :
    LET S == property(Cur, 1, "value", value, forceOrSilent)
    IN /\ Room
       /\ Becomes(S)
       /\ last' = Call("property", 1, "value", NoNode, "", value, forceOrSilent, S)
                    @@ [intervals |-> last.intervals]

\* the host calls node.triggerEntry('in')
Poke ==
  \E n \in {2, 4} :
    LET S == triggerEntry(Cur, n, "in")
    IN /\ Room
       /\ Becomes(S)
       /\ last' = Call("triggerEntry", n, "in", NoNode, "", Undefined, "", S)
                    @@ [intervals |-> last.intervals]

NextTimer ==
  \/ Restart
  \/ Tick
  \/ Feed
  \/ Poke

SpecTimer == InitTimer /\ [][NextTimer]_vars

\* C36 as claimed: whatever the number of start() calls, the engine has at most one
\* interval timer that calls update(), and exactly one once it was started
OneTickTimer ==
  last.intervals <= 1 /\ (last.op \in {"start", "update"} => last.intervals = 1)

(***************************************************************************)
(* Connecting while the script runs: a state machine over the nodes of     *)
(* LinkScript in which the host connects links, disconnects the property   *)
(* link, writes the storage value and enables or disables the Console Log  *)
(* node.                                                                   *)
(***************************************************************************)
\* the host calls node.enabled(b) on the Console Log node
EnableLog ==
  \E b \in BOOLEAN :
    LET S == property(Cur, 2, "enabled", Bool(b), "undefined")
    IN /\ Becomes(S)
       /\ last' = Call("enabled", 2, "enabled", NoNode, "", Bool(b), "", S)

\* the host calls connectInput or connectOutput with the name of no property of node 2
ConnectMissing ==
  \E input \in BOOLEAN :
    LET r == IF input THEN connectInput(Cur, 2, "text", 1, "value")
             ELSE connectOutput(Cur, 1, "value", 2, "text")
    IN /\ Room
       /\ Becomes(r.S)
       /\ last' = IF input
                    THEN Call("connectInput", 2, "text", 1, "value", Undefined, r.result, r.S)
                    ELSE Call("connectOutput", 1, "value", 2, "text", Undefined, r.result, r.S)

NextConnect ==
  \/ ConnectEntry /\ last'.name = "in"
  \/ ConnectExit /\ last'.node = 3
  \/ ConnectInput
  \/ ConnectOutput
  \/ ConnectMissing
  \/ DisconnectInput
  \/ Property /\ last'.result = "undefined"
  \/ EnableLog
  \/ Update

SpecConnect == InitLinks /\ [][NextConnect]_vars

\* the property update that a connection of input (node, name) to output (node, name)
\* sends, as the list of the items it enqueues
ConnectUpdate(in, out) ==
  IF Truthy(enabled(Cur, in[1]))
    THEN <<[node |-> in[1], name |-> in[2], value |-> propertyGet(Cur, out[1], out[2])]>>
    ELSE <<>>

\* C37: a connectInput or connectOutput that returns SUCCESS appends one property
\* update to the property queue, for the property on the input side with the value of
\* the property on the output side, and none when the node on the input side is
\* disabled; every other connect call, and every connect call that returns
\* ALREADY_CONNECTED or NOT_FOUND, leaves both queues as they were
ConnectEnqueues ==
  [][LET c == last'
     IN c.op \in ConnectOps =>
          /\ queuedChain' = queuedChain
          /\ queuedProperties' = queuedProperties \o
               (IF c.result # "success" THEN <<>>
                ELSE IF c.op = "connectInput"
                  THEN ConnectUpdate(<<c.node, c.name>>, <<c.targetNode, c.targetName>>)
                ELSE IF c.op = "connectOutput"
                  THEN ConnectUpdate(<<c.targetNode, c.targetName>>, <<c.node, c.name>>)
                ELSE <<>>)]_vars

\* C37 witness: connectInput of the message of node 2 to the storage value returned
\* SUCCESS and enqueued the storage value 1 for the message
ConnectEnqueuesWitness ==
  /\ last.op = "connectInput"
  /\ last.result = "success"
  /\ last.accepted = <<[node |-> 2, name |-> "message", value |-> Num(1)]>>
  /\ queuedProperties[Len(queuedProperties)] = [node |-> 2, name |-> "message", value |-> Num(1)]

\* node n is in a partition of the engine
Registered(n) == \E kind \in Kinds : Occurs(Partition(kind), n) > 0

\* C38 as claimed: when destroy() returns no queue holds an item of the destroyed node,
\* and a tick hands items only to nodes that are in a partition of the engine
DestroyedNotQueued ==
  /\ last.op = "destroy" =>
       /\ \A i \in 1..Len(queuedChain) : queuedChain[i].node # last.node
       /\ \A i \in 1..Len(queuedProperties) : queuedProperties[i].node # last.node
  /\ last.op = "update" =>
       \A i \in 1..Len(last.handled) : Registered(last.handled[i].node)

(***************************************************************************)
(* The editor deletes a node and undoes the deletion: a state machine over *)
(* the script of Script.  The delete handler records the node in an event  *)
(* of the undo manager and destroys it; undo constructs the node again and *)
(* replays the event.  The history variable keeps the event, and the nodes *)
(* as they were before the deletion, while the deletion is the last call.  *)
(***************************************************************************)
\* node.listEntryChains(), listExitChains(), listInputChains(), listOutputChains() for
\* side entry, exit, input, output: the chain records from link a of slot i on
RECURSIVE ListChains(_, _, _, _, _)
ListChains(S, side, n, i, a) ==
  IF i > Len(Slots(S, side, n)) THEN <<>>
  ELSE IF a > Len(LinksAt(S, side, n, i)) THEN ListChains(S, side, n, i + 1, 1)
  ELSE LET mine == Slots(S, side, n)[i].name
           link == LinksAt(S, side, n, i)[a]
       IN << IF side \in {"entry", "input"}
               THEN [inName |-> mine, inNodeId |-> n,
                     outName |-> link.name, outNodeId |-> link.node]
               ELSE [inName |-> link.name, inNodeId |-> link.node,
                     outName |-> mine, outNodeId |-> n] >>
          \o ListChains(S, side, n, i, a + 1)

\* node.listProperties()
listProperties(S, n) ==
  [i \in 1..Len(S.nodes[n].properties) |->
     [name |-> S.nodes[n].properties[i].name,
      value |-> S.nodes[n].properties[i].value,
      initialValue |-> S.nodes[n].properties[i].initialValue]]

\* the event that the delete handler of the editor hands to the undo manager
DeleteEvent(S, n) ==
  [id |-> n, className |-> S.nodes[n].className, breakpoint |-> S.nodes[n].break,
   properties |-> listProperties(S, n),
   entryChains |-> ListChains(S, "entry", n, 1, 1),
   exitChains |-> ListChains(S, "exit", n, 1, 1),
   inputChains |-> ListChains(S, "input", n, 1, 1),
   outputChains |-> ListChains(S, "output", n, 1, 1)]

\* undo: the loop that restores the property values, from index i
RECURSIVE RestoreProperties(_, _, _, _)
RestoreProperties(S, n, props, i) ==
  IF i > Len(props) THEN S
  ELSE RestoreProperties(
         property(initialProperty(S, n, props[i].name, props[i].initialValue),
                  n, props[i].name, props[i].value, "undefined"),
         n, props, i + 1)

\* undo: the loop that connects the chains of one side again, from index i, with the
\* fields of the chain record that the loop of that side reads
RECURSIVE Reconnect(_, _, _, _, _)
Reconnect(S, side, n, chains, i) ==
  IF i > Len(chains) THEN S
  ELSE LET chain == chains[i]
       IN Reconnect(
            IF side = "entry"
              THEN connectEntry(S, n, chain.inName,
                                nodeById(S, chain.outNodeId), chain.outName).S
            ELSE IF side = "exit"
              THEN connectExit(S, n, chain.outName,
                               nodeById(S, chain.inNodeId), chain.inName).S
            ELSE IF side = "input"
              THEN connectInput(S, n, chain.inName,
                                nodeById(S, chain.outNodeId), chain.outName).S
            ELSE connectOutput(S, n, chain.inName,
                               nodeById(S, chain.outNodeId), chain.outName).S,
            side, n, chains, i + 1)

\* the undo function of the delete event e
undoDelete(S, e) ==
  Reconnect(
    Reconnect(
      Reconnect(
        Reconnect(
          RestoreProperties(
            [NewNode(S, e.id, e.className) EXCEPT !.nodes[e.id].break = e.breakpoint],
            e.id, e.properties, 1),
          "entry", e.id, e.entryChains, 1),
        "exit", e.id, e.exitChains, 1),
      "input", e.id, e.inputChains, 1),
    "output", e.id, e.outputChains, 1)

\* the user deletes a node in the editor
Delete ==
  \E n \in {1, 2, 4} :
    LET S == destroy(Cur, n)
    IN /\ nodeById(Cur, n) # NoNode
       /\ Room
       /\ Becomes(S)
       /\ last' = Call("delete", n, "", NoNode, "", Undefined, "", S)
                    @@ [event |-> DeleteEvent(Cur, n), before |-> nodes]

\* the user undoes the deletion
Undo ==
  LET S == undoDelete(Cur, last.event)
  IN /\ last.op = "delete"
     /\ Becomes(S)
     /\ last' = Call("undo", last.node, "", NoNode, "", Undefined, "", S)
                  @@ [before |-> last.before]

NextUndo ==
  \/ Delete
  \/ Undo
  \/ Update
  \/ Property /\ last'.result = "undefined"

SpecUndo == Init /\ [][NextUndo]_vars

\* the names of the links and properties of the script
LinkNames == {"in", "out", "value", "message", "enabled", "debug log"}

\* C39 as claimed: after delete and undo the node has, on both ends of each connection,
\* exactly the flow and property connections that it had before the deletion
UndoRestoresChains ==
  last.op = "undo" =>
    \A side \in Sides, a \in NodeIds, b \in NodeIds, name \in LinkNames, other \in LinkNames :
      a = last.node \/ b = last.node =>
        (Holds(Graph, side, a, name, b, other)
           <=> Holds([nodes |-> last.before], side, a, name, b, other))

\* C40 as claimed: destroy() takes nothing but the destroyed node out of the partitions
\* of the engine; a destroy() of a node that no partition holds any more, such as the
\* second destroy() of a node, leaves every partition as it was
DestroyRemovesOnlyItself ==
  [][last'.op = "destroy" =>
       \A kind \in Kinds :
         Partition(kind)' = SelectSeq(Partition(kind), LAMBDA x : x # last'.node)
    ]_vars

====
